---- MODULE Spec2Model ----
(***************************************************************************)
(* Model of the utilization monitor of esrum-utils                         *)
(* (src/utilization-monitor/src/utilization_monitor): the sampling loop of *)
(* monitors.py, the windows of system.py and processes.py, the command     *)
(* filters of filters.py and the commit scheduler of cmds/monitor.py.      *)
(*                                                                         *)
(* Time is counted in tenths of a second, the resolution of the smallest   *)
(* tolerance of the scheduler (0.1 s).  CPU and memory usage are counted   *)
(* in whole units.  A quotient is kept as a pair <<numerator, denominator>>*)
(* and two quotients are compared by cross multiplication.                 *)
(*                                                                         *)
(* Reading the replay file (open, json.load, validation) is abstracted to  *)
(* the sequence of snapshots the file holds.                               *)
(***************************************************************************)
EXTENDS Integers, Sequences, FiniteSets, TLC

\* refresh_interval = 5 (seconds)
RefreshInterval == 50
\* record_interval = utilization_resolution * 60 (seconds), resolution 1
RecordInterval == 600
\* snapshot.timestamp + 0.1 >= next_commit
CommitTolerance == 1
\* snapshot.timestamp - next_commit >= 10.0
DriftLimit == 100
\* actual_sleep_time >= expected_sleep_time + 0.5
SleepDriftLimit == 5
\* time_after_collect - time_after_sleep >= 1.0
CollectDriftLimit == 10
\* duration >= 0.5
CommitDurationLimit == 5
\* float("nan"), the time_start / time_end of an empty window
NaN == -1

\* The username of a process below the minimum uid, and the name of the
\* catch-all group.
None == "None"

(***************************************************************************)
(* Sequence helpers                                                        *)
(***************************************************************************)
Range(s) == {s[i] : i \in DOMAIN s}

RECURSIVE SumSeq(_)
SumSeq(s) == IF s = <<>> THEN 0 ELSE Head(s) + SumSeq(Tail(s))

RECURSIVE SelectSeqBy(_, _)
\* [it for it in items if Test(it)] with Test given as a set of accepted items
SelectSeqBy(s, ok) ==
    IF s = <<>> THEN <<>>
    ELSE IF Head(s) \in ok THEN <<Head(s)>> \o SelectSeqBy(Tail(s), ok)
    ELSE SelectSeqBy(Tail(s), ok)

Reverse(s) == [i \in 1..Len(s) |-> s[Len(s) + 1 - i]]

SetMin(S) == CHOOSE x \in S : \A y \in S : x <= y
SetMax(S) == CHOOSE x \in S : \A y \in S : x >= y

\* equality of two quotients <<n, d>>
RatEq(a, b) == a[1] * b[2] = b[1] * a[2]

(***************************************************************************)
(* filters.py: CommandFilters                                              *)
(* A string is a sequence of one-character strings; a command is a         *)
(* sequence of strings (the empty sequence stands for None and for []).    *)
(***************************************************************************)
IsGlob(pat) == \E i \in DOMAIN pat : pat[i] \in {"*", "[", "]"}

\* CommandFilters.__init__: the patterns with a glob character, in order
FilterPatterns(patterns) == SelectSeqBy(patterns, {p \in Range(patterns) : IsGlob(p)})

\* CommandFilters.__init__: the literal executables
FilterExecutables(patterns) == {p \in Range(patterns) : ~IsGlob(p)}

\* Path(arg).parts without the root: the components between the "/" of arg;
\* empty components and "." components are dropped
RECURSIVE PathParts(_)
PathParts(arg) ==
    LET keep(part) == IF part = <<>> \/ part = <<".">> THEN <<>> ELSE <<part>>
    IN  IF \E i \in DOMAIN arg : arg[i] = "/"
        THEN LET k == CHOOSE i \in DOMAIN arg :
                         arg[i] = "/" /\ \A j \in 1..(i - 1) : arg[j] # "/"
             IN  keep(SubSeq(arg, 1, k - 1)) \o PathParts(SubSeq(arg, k + 1, Len(arg)))
        ELSE keep(arg)

\* Path(arg).name: the last component of the path, empty when there is none
PathName(arg) ==
    LET parts == PathParts(arg)
    IN  IF parts = <<>> THEN <<>> ELSE parts[Len(parts)]

\* " ".join(command)
RECURSIVE JoinCommand(_)
JoinCommand(command) ==
    IF command = <<>> THEN <<>>
    ELSE IF Len(command) = 1 THEN command[1]
    ELSE command[1] \o <<" ">> \o JoinCommand(Tail(command))

\* fnmatch.fnmatch for patterns made of literal characters, "?" and "*"
RECURSIVE FnMatch(_, _)
FnMatch(str, pat) ==
    IF pat = <<>> THEN str = <<>>
    ELSE IF Head(pat) = "*"
         THEN FnMatch(str, Tail(pat)) \/ (str # <<>> /\ FnMatch(Tail(str), pat))
    ELSE /\ str # <<>>
         /\ (Head(pat) = "?" \/ Head(pat) = Head(str))
         /\ FnMatch(Tail(str), Tail(pat))

\* a filter whose literal patterns are compared with every argument
CommandFiltersAnyArgument(patterns, command) ==
    IF command = <<>> THEN <<"*">> \in Range(FilterPatterns(patterns))
    ELSE IF \E a \in Range(command) : PathName(a) \in FilterExecutables(patterns) THEN TRUE
    ELSE \E p \in Range(FilterPatterns(patterns)) : FnMatch(JoinCommand(command), p)

\* a filter that rejects every process without a command line
CommandFiltersNeedsCommand(patterns, command) ==
    IF command = <<>> THEN FALSE
    ELSE IF PathName(command[1]) \in FilterExecutables(patterns) THEN TRUE
    ELSE \E p \in Range(FilterPatterns(patterns)) : FnMatch(JoinCommand(command), p)

\* CommandFilters.__call__
CommandFilters(patterns, command) ==
    IF command = <<>> THEN <<"*">> \in Range(FilterPatterns(patterns))
    ELSE IF PathName(command[1]) \in FilterExecutables(patterns) THEN TRUE
    ELSE \E p \in Range(FilterPatterns(patterns)) : FnMatch(JoinCommand(command), p)

(***************************************************************************)
(* processes.py: ProcMeasurement, MergedMeasurement, ProcessSnapshots      *)
(* A ProcMeasurement is a record [pid, username, time_start, time_end,     *)
(* cpu_usage, mem_usage, command, create_time]; create_time is <<>> for    *)
(* None and <<t>> otherwise.                                               *)
(***************************************************************************)
\* an identity that leaves out the creation time
unique_id_by_pid(p) ==
    IF p.create_time = <<>> THEN {}
    ELSE {[pid |-> p.pid, create_time |-> 0]}

\* an identity for every measurement, with creation time 0 when unknown
unique_id_always(p) ==
    {[pid |-> p.pid,
      create_time |-> IF p.create_time = <<>> THEN 0 ELSE p.create_time[1]]}

\* ProcMeasurement.unique_id: the set of identities of the measurement (none
\* when the creation time is unknown)
unique_id(p) ==
    IF p.create_time = <<>> THEN {}
    ELSE {[pid |-> p.pid, create_time |-> p.create_time[1]]}

\* MergedMeasurement.from_measurements raises ValueError
FromMeasurementsRaises(items) ==
    \E i \in DOMAIN items :
        \/ items[i].username # items[1].username
        \/ items[i].time_start # items[1].time_start
        \/ items[i].time_end # items[1].time_end

\* a merge that assigns the values of each item instead of adding them
from_measurements_assigns(items) ==
    [username   |-> items[1].username,
     time_start |-> items[1].time_start,
     time_end   |-> items[1].time_end,
     cpu_usage  |-> items[Len(items)].cpu_usage,
     mem_usage  |-> items[Len(items)].mem_usage,
     processes  |-> UNION {unique_id(items[i]) : i \in DOMAIN items}]

\* MergedMeasurement.from_measurements
from_measurements(items) ==
    [username   |-> items[1].username,
     time_start |-> items[1].time_start,
     time_end   |-> items[1].time_end,
     cpu_usage  |-> SumSeq([i \in DOMAIN items |-> items[i].cpu_usage]),
     mem_usage  |-> SumSeq([i \in DOMAIN items |-> items[i].mem_usage]),
     processes  |-> UNION {unique_id(items[i]) : i \in DOMAIN items}]

\* bool(self._patterns) at line 148: _patterns is a CommandFilters, a class
\* that defines neither __bool__ nor __len__, so the object is true whatever
\* patterns it was built from
CommandFiltersBool(patterns) == TRUE

\* ProcessSnapshots.__init__ raises ValueError("no patterns"), lines 148-149
ProcessSnapshotsRaises(patterns) == ~CommandFiltersBool(patterns)

\* ProcessSnapshots.__init__: a tracker is [name, patterns, measurements]
ProcessSnapshots(name, patterns) ==
    [name |-> name, patterns |-> patterns, measurements |-> <<>>]

\* the items of one tick that the tracker's filter accepts
MatchingItems(tracker, items) ==
    SelectSeqBy(items, {it \in Range(items) : CommandFilters(tracker.patterns, it.command)})

\* ProcessSnapshots.add_measurements raises ValueError
AddMeasurementsRaises(tracker, items) ==
    \/ items = <<>>
    \/ /\ MatchingItems(tracker, items) # <<>>
       /\ FromMeasurementsRaises(MatchingItems(tracker, items))

\* an add_measurements that appends an entry of zeros when nothing matches
add_measurements_zero(tracker, items) ==
    IF MatchingItems(tracker, items) # <<>>
    THEN [tracker EXCEPT !.measurements =
              Append(@, from_measurements(MatchingItems(tracker, items)))]
    ELSE [tracker EXCEPT !.measurements =
              Append(@, [username   |-> items[1].username,
                         time_start |-> items[1].time_start,
                         time_end   |-> items[1].time_end,
                         cpu_usage  |-> 0,
                         mem_usage  |-> 0,
                         processes  |-> {}])]

\* ProcessSnapshots.add_measurements
add_measurements(tracker, items) ==
    IF MatchingItems(tracker, items) # <<>>
    THEN [tracker EXCEPT !.measurements =
              Append(@, from_measurements(MatchingItems(tracker, items)))]
    ELSE tracker

\* ProcessSnapshots.time_start / SystemSnapshots.time_start
time_start(w) ==
    IF w = <<>> THEN NaN ELSE SetMin({w[i].time_start : i \in DOMAIN w})

\* ProcessSnapshots.time_end / SystemSnapshots.time_end
time_end(w) ==
    IF w = <<>> THEN NaN ELSE SetMax({w[i].time_end : i \in DOMAIN w})

\* ProcessSnapshots.average_cpu_usage: statistics.mean of the entries
PS_average_cpu_usage(w) ==
    IF w = <<>> THEN <<0, 1>>
    ELSE <<SumSeq([i \in DOMAIN w |-> w[i].cpu_usage]), Len(w)>>

\* ProcessSnapshots.average_mem_usage
PS_average_mem_usage(w) ==
    IF w = <<>> THEN <<0, 1>>
    ELSE <<SumSeq([i \in DOMAIN w |-> w[i].mem_usage]), Len(w)>>

\* ProcessSnapshots.peak_cpu_usage
PS_peak_cpu_usage(w) ==
    IF w = <<>> THEN 0 ELSE SetMax({w[i].cpu_usage : i \in DOMAIN w})

\* ProcessSnapshots.peak_mem_usage
PS_peak_mem_usage(w) ==
    IF w = <<>> THEN 0 ELSE SetMax({w[i].mem_usage : i \in DOMAIN w})

\* ProcessSnapshots.processes
PS_processes(w) == Cardinality(UNION {w[i].processes : i \in DOMAIN w})

(***************************************************************************)
(* system.py: SystemMeasurement, SystemSnapshots                           *)
(***************************************************************************)
\* a system measurement that counts the identities of named owners only
SystemMeasurementNamedOnly(processes, t_start, t_end, cpu, mem) ==
    [time_start     |-> t_start,
     time_end       |-> t_end,
     cpu_usage      |-> cpu,
     mem_usage      |-> mem,
     users          |-> {processes[i].username : i \in DOMAIN processes} \ {None},
     user_processes |-> UNION {IF processes[i].username = None THEN {}
                               ELSE unique_id(processes[i]) : i \in DOMAIN processes}]

\* SystemMeasurement.snapshot; cpu and mem are what psutil reports
SystemMeasurement(processes, t_start, t_end, cpu, mem) ==
    [time_start     |-> t_start,
     time_end       |-> t_end,
     cpu_usage      |-> cpu,
     mem_usage      |-> mem,
     users          |-> {processes[i].username : i \in DOMAIN processes} \ {None},
     user_processes |-> UNION {unique_id(processes[i]) : i \in DOMAIN processes}]

\* SystemSnapshots._mean_statistic with key = cpu_usage:
\* statistics.mean(value * timespan) / total_timespan
SS_mean_cpu(w) ==
    IF w = <<>> THEN <<0, 1>>
    ELSE <<SumSeq([i \in DOMAIN w |-> w[i].cpu_usage * (w[i].time_end - w[i].time_start)]),
           Len(w) * SumSeq([i \in DOMAIN w |-> w[i].time_end - w[i].time_start])>>

\* SystemSnapshots._mean_statistic with key = mem_usage
SS_mean_mem(w) ==
    IF w = <<>> THEN <<0, 1>>
    ELSE <<SumSeq([i \in DOMAIN w |-> w[i].mem_usage * (w[i].time_end - w[i].time_start)]),
           Len(w) * SumSeq([i \in DOMAIN w |-> w[i].time_end - w[i].time_start])>>

\* SystemSnapshots.average_cpu_usage
SS_average_cpu_usage(w) == SS_mean_cpu(w)

\* SystemSnapshots.average_mem_usage
SS_average_mem_usage(w) == SS_mean_mem(w)

\* SystemSnapshots.peak_cpu_usage
SS_peak_cpu_usage(w) ==
    IF w = <<>> THEN 0 ELSE SetMax({w[i].cpu_usage : i \in DOMAIN w})

\* SystemSnapshots.peak_mem_usage
SS_peak_mem_usage(w) ==
    IF w = <<>> THEN 0 ELSE SetMax({w[i].mem_usage : i \in DOMAIN w})

\* SystemSnapshots.users
SS_users(w) == Cardinality(UNION {w[i].users : i \in DOMAIN w})

\* SystemSnapshots.user_processes
SS_user_processes(w) == Cardinality(UNION {w[i].user_processes : i \in DOMAIN w})

\* an add_measurement that appends nothing
add_measurement_drops(w, it) == w

\* an add_measurement that overwrites the window
add_measurement_replaces(w, it) == <<it>>

\* SystemSnapshots.add_measurement
add_measurement(w, it) == Append(w, it)

\* a reset that leaves the entries in place
reset_keeps(w) == w

\* SystemSnapshots.reset
reset(w) == <<>>

(***************************************************************************)
(* utilities.py: aggregate                                                 *)
(***************************************************************************)
RECURSIVE FirstKeys(_, _)
\* the usernames of the items in order of first occurrence (dict key order)
FirstKeys(items, seen) ==
    IF items = <<>> THEN <<>>
    ELSE IF Head(items).username \in seen THEN FirstKeys(Tail(items), seen)
    ELSE <<Head(items).username>> \o FirstKeys(Tail(items), seen \cup {Head(items).username})

\* aggregate(items, key = username): the dict as a sequence of [key, items]
aggregate(items) ==
    LET keys == FirstKeys(items, {})
    IN  [i \in DOMAIN keys |->
            [key   |-> keys[i],
             items |-> SelectSeqBy(items, {it \in Range(items) : it.username = keys[i]})]]

\* a timestamp rounded to the nearest second
timestamp_to_nearest_utc(ts) == (ts + 5) \div 10

(***************************************************************************)
(* cmds/monitor.py: the commit scheduler                                   *)
(* user_utilization, a defaultdict, is the sequence of its entries         *)
(* [user, groups] in insertion order; process_groups is the sequence of    *)
(* the configured [name, patterns].                                        *)
(***************************************************************************)
\* timestamp_to_round_utc: whole seconds
timestamp_to_round_utc(ts) == ts \div 10

\* datetime.fromtimestamp raises ValueError on NaN
RoundRaises(ts) == ts = NaN

\* create_user_trackers raises: the construction of one of its trackers does
CreateTrackersRaises(groups) ==
    \/ \E i \in DOMAIN groups : ProcessSnapshotsRaises(groups[i].patterns)
    \/ ProcessSnapshotsRaises(<< <<"*">> >>)

\* create_user_trackers
create_user_trackers(groups) ==
    [i \in DOMAIN groups |-> ProcessSnapshots(groups[i].name, groups[i].patterns)]
        \o <<ProcessSnapshots(None, << <<"*">> >>)>>

\* a boundary that is the timestamp itself when that is a multiple already
calculate_next_snapshot_ceil(timestamp) ==
    ((timestamp + RecordInterval - 1) \div RecordInterval) * RecordInterval

\* _calculate_next_snapshot
calculate_next_snapshot(timestamp) ==
    (timestamp \div RecordInterval + 1) * RecordInterval

\* the record ProcUtilization.new(...) of one tracker of one user
ProcUtilization(user, group) ==
    [kind        |-> "proc",
     user        |-> user,
     group       |-> group.name,
     time_start  |-> timestamp_to_round_utc(time_start(group.measurements)),
     time_end    |-> timestamp_to_round_utc(time_end(group.measurements)),
     average_cpu |-> PS_average_cpu_usage(group.measurements),
     average_mem |-> PS_average_mem_usage(group.measurements),
     peak_cpu    |-> PS_peak_cpu_usage(group.measurements),
     peak_mem    |-> PS_peak_mem_usage(group.measurements),
     processes   |-> PS_processes(group.measurements)]

\* the record SystemUtilization.new(...)
SystemUtilization(system) ==
    [kind           |-> "system",
     time_start     |-> timestamp_to_round_utc(time_start(system)),
     time_end       |-> timestamp_to_round_utc(time_end(system)),
     average_cpu    |-> SS_average_cpu_usage(system),
     average_mem    |-> SS_average_mem_usage(system),
     peak_cpu       |-> SS_peak_cpu_usage(system),
     peak_mem       |-> SS_peak_mem_usage(system),
     users          |-> SS_users(system),
     user_processes |-> SS_user_processes(system)]

\* commit_utilization_records raises ValueError while it builds the records
CommitRaises(system, users) ==
    \/ \E i \in DOMAIN users : \E g \in DOMAIN users[i].groups :
          \/ RoundRaises(time_start(users[i].groups[g].measurements))
          \/ RoundRaises(time_end(users[i].groups[g].measurements))
    \/ RoundRaises(time_start(system))
    \/ RoundRaises(time_end(system))

RECURSIVE UserRecords(_)
\* the records of the loop over users.items() and their groups
UserRecords(users) ==
    IF users = <<>> THEN <<>>
    ELSE [g \in DOMAIN Head(users).groups |->
             ProcUtilization(Head(users).user, Head(users).groups[g])]
         \o UserRecords(Tail(users))

\* commit_utilization_records: the list handed to session.add_all
commit_utilization_records(system, users) ==
    UserRecords(users) \o <<SystemUtilization(system)>>

RECURSIVE FeedGroups(_, _)
\* for group in user_utilization[user]: group.add_measurements(user_processes),
\* up to the first tracker whose add_measurements raises
FeedGroups(gs, items) ==
    IF gs = <<>> THEN <<>>
    ELSE IF AddMeasurementsRaises(Head(gs), items) THEN gs
    ELSE <<add_measurements(Head(gs), items)>> \o FeedGroups(Tail(gs), items)

RECURSIVE FeedUsers(_, _, _)
\* for user, user_processes in aggregate(...).items():
\*     for group in user_utilization[user]: group.add_measurements(user_processes)
\* The loop ends at the first add_measurements that raises.
FeedUsers(users, agg, groups) ==
    IF agg = <<>> THEN users
    ELSE LET e == Head(agg)
             known == \E i \in DOMAIN users : users[i].user = e.key
             withUser == IF known THEN users
                         ELSE Append(users, [user   |-> e.key,
                                             groups |-> create_user_trackers(groups)])
             idx == CHOOSE i \in DOMAIN withUser : withUser[i].user = e.key
             fed == [withUser EXCEPT ![idx].groups = FeedGroups(@, e.items)]
         IN  IF \E g \in DOMAIN withUser[idx].groups :
                    AddMeasurementsRaises(withUser[idx].groups[g], e.items)
             THEN fed
             ELSE FeedUsers(fed, Tail(agg), groups)

\* a drift check that also realigns a boundary that is more than a commit
\* interval ahead of the snapshot
DriftCheckBothWays(nc, snap) ==
    IF snap.timestamp - nc >= DriftLimit \/ nc - snap.timestamp > RecordInterval
    THEN calculate_next_snapshot(snap.timestamp)
    ELSE nc

\* a drift check that never moves the boundary
DriftCheckKeeps(nc, snap) == nc

\* the drift check of main: the boundary after lines 239-245
DriftCheck(nc, snap) ==
    IF snap.timestamp - nc >= DriftLimit
    THEN calculate_next_snapshot(snap.timestamp)
    ELSE nc

\* main, line 239: the drift warning is logged
DriftWarns(nc, snap) == snap.timestamp - nc >= DriftLimit

\* commit_utilization_records, lines 100-105: the warning is logged when
\* duration = start_time - time.time() is 0.5 or more, start_time being the
\* clock before and end_time the clock after the write
CommitWarns(start_time, end_time) == start_time - end_time >= CommitDurationLimit

\* a commit check that is met only by a tick exactly on the boundary
CommitDueExact(nc, snap) == snap.timestamp = nc

\* a commit check that waits until the boundary is more than 0.1 s behind
CommitDueLate(nc, snap) == snap.timestamp > nc + CommitTolerance

\* the commit check of main, line 255
CommitDue(nc, snap) == snap.timestamp + CommitTolerance >= nc

\* timestamp = min(snapshot.timestamp + 0.1, time.time())
CommitTimestamp(snap, clock) ==
    IF snap.timestamp + CommitTolerance <= clock
    THEN snap.timestamp + CommitTolerance
    ELSE clock

\* main, lines 248-253, raises: user_utilization[user] builds the trackers of
\* an owner on first access, and add_measurements merges the measurements a
\* tracker accepts
AggregateRaises(snap, groups) ==
    \/ snap.processes # <<>> /\ CreateTrackersRaises(groups)
    \/ \E e \in Range(aggregate(snap.processes)) :
          \E t \in Range(create_user_trackers(groups)) :
              AddMeasurementsRaises(t, e.items)

\* an aggregation that empties the windows when the boundary is realigned
AggregateStepDiscards(s, snap, groups) ==
    LET drift == snap.timestamp - s.next_commit >= DriftLimit
    IN  [s EXCEPT !.next_commit = DriftCheck(s.next_commit, snap),
                  !.system_utilization =
                      add_measurement(IF drift THEN <<>> ELSE s.system_utilization,
                                      snap.system),
                  !.user_utilization =
                      FeedUsers(IF drift THEN <<>> ELSE s.user_utilization,
                                aggregate(snap.processes), groups)]

\* main, lines 237-253, on the scheduler state s = [next_commit,
\* system_utilization, user_utilization, committed, error] for the snapshot
\* snap: the drift check and the aggregation into the windows
AggregateStep(s, snap, groups) ==
    [s EXCEPT !.next_commit = DriftCheck(s.next_commit, snap),
              !.system_utilization = add_measurement(s.system_utilization, snap.system),
              !.user_utilization =
                  FeedUsers(s.user_utilization, aggregate(snap.processes), groups)]

\* a commit check that runs before the snapshot is aggregated: the records
\* are those of the system window without its last entry, which stays in the
\* window
CommitStepBeforeAggregation(s, snap, clock, sinkOk) ==
    IF ~CommitDue(s.next_commit, snap) THEN s
    ELSE LET n == Len(s.system_utilization)
         IN  [next_commit        |-> calculate_next_snapshot(CommitTimestamp(snap, clock)),
              system_utilization |-> <<s.system_utilization[n]>>,
              user_utilization   |-> <<>>,
              committed          |-> Append(s.committed,
                                            commit_utilization_records(
                                                SubSeq(s.system_utilization, 1, n - 1),
                                                s.user_utilization)),
              error              |-> "none"]

\* a commit check that resets the windows whether or not the sink returned
CommitStepAlwaysResets(s, snap, clock, sinkOk) ==
    IF ~CommitDue(s.next_commit, snap) THEN s
    ELSE IF CommitRaises(s.system_utilization, s.user_utilization)
    THEN [s EXCEPT !.error = "ValueError"]
    ELSE [next_commit        |-> calculate_next_snapshot(CommitTimestamp(snap, clock)),
          system_utilization |-> reset(s.system_utilization),
          user_utilization   |-> <<>>,
          committed          |-> IF sinkOk
                                 THEN Append(s.committed,
                                             commit_utilization_records(
                                                 s.system_utilization, s.user_utilization))
                                 ELSE s.committed,
          error              |-> IF sinkOk THEN "none" ELSE "SinkError"]

\* main, lines 255-265: the commit check.  clock is the reading of time.time()
\* at line 262 and sinkOk tells whether session.add_all / session.commit
\* return.
CommitStep(s, snap, clock, sinkOk) ==
    IF ~CommitDue(s.next_commit, snap) THEN s
    ELSE IF CommitRaises(s.system_utilization, s.user_utilization)
    THEN [s EXCEPT !.error = "ValueError"]
    ELSE IF ~sinkOk THEN [s EXCEPT !.error = "SinkError"]
    ELSE [next_commit        |-> calculate_next_snapshot(CommitTimestamp(snap, clock)),
          system_utilization |-> reset(s.system_utilization),
          user_utilization   |-> <<>>,
          committed          |-> Append(s.committed,
                                        commit_utilization_records(
                                            s.system_utilization, s.user_utilization)),
          error              |-> "none"]

\* one iteration of the loop body of main, lines 237-265
MainLoopBody(s, snap, groups, clock, sinkOk) ==
    CommitStep(AggregateStep(s, snap, groups), snap, clock, sinkOk)

(***************************************************************************)
(* Bounds and inputs of the model                                          *)
(***************************************************************************)
\* the number of snapshots a live run takes before the model stops it
MaxTicks == 3
\* the number of snapshots of a run without drift
MaxCalmTicks == 14

\* args.min_user_id (default)
MinUserId == 1000

PyCmd  == << <<"/", "b", "/", "p", "y">>, <<"a">> >>
SshCmd == << <<"/", "s", "d">>, <<"-", "D">> >>

\* what psutil reports of one process: [pid, uid, name, cpu, mem, command,
\* create_time], the exception that cmdline() / create_time() raise for it
\* (cmdline_fault) and the one that uids(), username(), memory_info() or
\* cpu_percent() raise (info_fault); "none" when the call returns
AlicePy(cpu, mem) ==
    [pid |-> 1, uid |-> 1000, name |-> "alice", cpu |-> cpu, mem |-> mem,
     command |-> PyCmd, create_time |-> <<10>>,
     cmdline_fault |-> "none", info_fault |-> "none"]
AliceSsh ==
    [pid |-> 2, uid |-> 1000, name |-> "alice", cpu |-> 1, mem |-> 1,
     command |-> SshCmd, create_time |-> <<11>>,
     cmdline_fault |-> "none", info_fault |-> "none"]
\* pid 1 again, another process
BobPy ==
    [pid |-> 1, uid |-> 1001, name |-> "bob", cpu |-> 3, mem |-> 1,
     command |-> PyCmd, create_time |-> <<12>>,
     cmdline_fault |-> "none", info_fault |-> "none"]
\* a system process that has vanished between the listing and cmdline()
RootProc ==
    [pid |-> 3, uid |-> 0, name |-> "root", cpu |-> 1, mem |-> 1,
     command |-> <<>>, create_time |-> <<>>,
     cmdline_fault |-> "none", info_fault |-> "none"]

\* what one tick may observe: the system's cpu and mem and the process table
Observations ==
    {[cpu |-> 1, mem |-> 2, procs |-> <<AlicePy(1, 2)>>],
     [cpu |-> 3, mem |-> 1, procs |-> <<AlicePy(2, 1), AliceSsh>>],
     [cpu |-> 2, mem |-> 2, procs |-> <<AliceSsh, BobPy, RootProc>>]}

\* the observations of a run without drift
CalmObservations ==
    {[cpu |-> 1, mem |-> 2, procs |-> <<AlicePy(1, 2)>>],
     [cpu |-> 2, mem |-> 2, procs |-> <<AliceSsh, BobPy, RootProc>>]}

\* a process of alice (pid 7) whose sampling fails: cmdline() raises cf and the
\* calls of lines 68-72 raise inf
Faulty(cf, inf) ==
    [pid |-> 7, uid |-> 1000, name |-> "alice", cpu |-> 1, mem |-> 1,
     command |-> SshCmd, create_time |-> <<13>>,
     cmdline_fault |-> cf, info_fault |-> inf]

\* how the sampling of a process fails: it has vanished (every call raises
\* NoSuchProcess), it is a zombie (cmdline() raises ZombieProcess and the
\* other calls return, or raise as well), or it denies access (to cmdline(),
\* or to one of the other calls)
SamplingFaults ==
    {<<"NoSuchProcess", "NoSuchProcess">>,
     <<"ZombieProcess", "none">>,
     <<"ZombieProcess", "ZombieProcess">>,
     <<"AccessDenied", "AccessDenied">>,
     <<"none", "AccessDenied">>}

\* the observations of a tick in which one process fails: alice's py, the
\* failing process, alice's sshd
SamplingObservations ==
    {[cpu |-> c, mem |-> 2, procs |-> <<AlicePy(1, 2), Faulty(f[1], f[2]), AliceSsh>>] :
        c \in {1, 2}, f \in SamplingFaults}

\* an anonymous process (uid below the minimum) that runs py
RootPy ==
    [pid |-> 4, uid |-> 0, name |-> "root", cpu |-> 2, mem |-> 1,
     command |-> PyCmd, create_time |-> <<14>>,
     cmdline_fault |-> "none", info_fault |-> "none"]

\* the observations of a run with configured groups: one owner, the
\* anonymous owner alone, three owners, two owners interleaved
GroupObservations ==
    {[cpu |-> 3, mem |-> 1, procs |-> <<AlicePy(2, 1), AliceSsh>>],
     [cpu |-> 1, mem |-> 1, procs |-> <<RootPy, RootProc>>],
     [cpu |-> 2, mem |-> 2, procs |-> <<AliceSsh, BobPy, RootProc>>],
     [cpu |-> 2, mem |-> 1, procs |-> <<AlicePy(1, 2), BobPy, AliceSsh>>]}

\* conf.process_groups of a run with configured groups: none; "py"; "py"
\* and a group "daemon" of the glob "*-D"; a group "idle" without patterns
NamedGroupConfigs ==
    {<<>>,
     <<[name |-> "py", patterns |-> << <<"p", "y">> >>]>>,
     <<[name |-> "py", patterns |-> << <<"p", "y">> >>],
       [name |-> "daemon", patterns |-> << <<"*", "-", "D">> >>]>>,
     <<[name |-> "idle", patterns |-> <<>>]>>}

\* conf.process_groups: none, or one group "py" of the executable "py"
GroupConfigs ==
    {<<>>, <<[name |-> "py", patterns |-> << <<"p", "y">> >>]>>}

\* the wall clock when the program starts
StartTimes == {540}
\* by how much time.sleep oversleeps: not at all, a little, by the drift limit,
\* by two commit intervals less 0.1 s
Lateness == {0, 3, 100, 1199}
\* how long a collection takes
CollectDurations == {0, 12}
\* how long the write of a commit takes
CommitDurations == {0, 2}

\* the number of snapshots of a run observed for its timing
MaxTimingTicks == 3
\* by how much time.sleep oversleeps in such a run: not at all, just below
\* and at the limit of the warning, up to 0.1 s before the next interval
TimingLateness == {0, 4, 5, 49}
\* how long a collection takes: no time, just below and at the limit of the
\* warning
TimingCollectDurations == {0, 9, 10}
\* how long the write of a commit takes: no time, 0.5 s, 0.6 s
TimingCommitDurations == {0, 5, 6}
\* what a tick of such a run observes
TimingObservations ==
    {[cpu |-> 3, mem |-> 1, procs |-> <<AlicePy(2, 1), AliceSsh>>],
     [cpu |-> 2, mem |-> 1, procs |-> <<AlicePy(1, 2), BobPy, AliceSsh>>]}

\* by how much time.sleep oversleeps in a run whose ticks take long: not at
\* all, a little, by the drift limit
SlowLateness == {0, 3, 100}
\* how long a collection takes in such a run: no time, 7 s
SlowCollectDurations == {0, 70}
\* how long the write of a commit takes in such a run: no time, 12 s
SlowCommitDurations == {0, 120}

\* by how much time.sleep oversleeps in a run that is suspended: not at all,
\* by the drift limit, by 109 s
TileLateness == {0, 100, 1090}

\* the number of snapshots of one window of a run that never ends
LiveTicks == 13
\* by how much time.sleep oversleeps in such a run: not at all, by 9.9 s
LiveLateness == {0, 99}
\* how long the write of a commit takes in such a run
LiveCommitDurations == {0, 2}
\* what a tick of such a run observes
LiveObservations ==
    {[cpu |-> 3, mem |-> 1, procs |-> <<AlicePy(2, 1), AliceSsh>>]}

\* the wall clock when a replay starts: before and after the recorded times
ReplayStartTimes == {540, 3000}
\* the timestamps of the snapshots of a replay file
ReplayTimes == {<<550, 600, 650>>, <<590, 603, 1210>>}

(***************************************************************************)
(* monitors.py: ProcessMonitor and Monitor                                 *)
(***************************************************************************)
\* the exceptions of contextlib.suppress(psutil.ZombieProcess,
\* psutil.NoSuchProcess), processes.py line 62 and monitors.py line 57
Suppressed == {"ZombieProcess", "NoSuchProcess"}

\* the exception that leaves ProcMeasurement.snapshot, "none" when it returns:
\* one of cmdline() / create_time() that is not suppressed, or one of the
\* calls of lines 68-72
SnapshotRaises(proc) ==
    IF proc.cmdline_fault \notin Suppressed \cup {"none"} THEN proc.cmdline_fault
    ELSE proc.info_fault

\* ProcMeasurement.snapshot: command and create_time stay None when the
\* suppressed block of lines 62-64 was left by an exception
ProcMeasurement(proc, t_start, t_end, min_uid) ==
    [pid         |-> proc.pid,
     username    |-> IF proc.uid < min_uid THEN None ELSE proc.name,
     time_start  |-> t_start,
     time_end    |-> t_end,
     cpu_usage   |-> proc.cpu,
     mem_usage   |-> proc.mem,
     command     |-> IF proc.cmdline_fault = "none" THEN proc.command ELSE <<>>,
     create_time |-> IF proc.cmdline_fault = "none" THEN proc.create_time ELSE <<>>]

\* the exception that leaves ProcessMonitor.collect, "none" when it returns:
\* the first one of a snapshot that line 57 does not suppress
CollectRaises(obs) ==
    LET bad == {i \in DOMAIN obs.procs :
                   SnapshotRaises(obs.procs[i]) \notin Suppressed \cup {"none"}}
    IN  IF bad = {} THEN "none" ELSE SnapshotRaises(obs.procs[SetMin(bad)])

\* a collection whose interval is the refresh interval before current_time
collect_fixed_interval(obs, last, current_time) ==
    LET sampled == SelectSeqBy(obs.procs,
                               {p \in Range(obs.procs) : SnapshotRaises(p) = "none"})
        start == current_time - RefreshInterval
        processes == [i \in DOMAIN sampled |->
                         ProcMeasurement(sampled[i], start, current_time, MinUserId)]
    IN  [system    |-> SystemMeasurement(processes, start, current_time, obs.cpu, obs.mem),
         processes |-> processes]

\* ProcessMonitor.collect at current_time, observing obs: the pair
\* (system, processes) as a snapshot record without its timestamp; a process
\* whose snapshot raised a suppressed exception is not appended
collect(obs, last, current_time) ==
    LET sampled == SelectSeqBy(obs.procs,
                               {p \in Range(obs.procs) : SnapshotRaises(p) = "none"})
        processes == [i \in DOMAIN sampled |->
                         ProcMeasurement(sampled[i], last, current_time, MinUserId)]
    IN  [system    |-> SystemMeasurement(processes, last, current_time, obs.cpu, obs.mem),
         processes |-> processes]

\* Snapshot(timestamp, system, processes)
Snapshot(timestamp, collected) ==
    [timestamp |-> timestamp,
     system    |-> collected.system,
     processes |-> collected.processes]

\* Monitor._load_replay: the snapshots of the file, result.val[::-1]
load_replay(file) == Reverse(file)

\* a sleep of one interval, whatever the clock
expected_sleep_time_fixed(time_before_sleep) == RefreshInterval

\* a sleep that aims at the multiple of the interval the clock has passed
expected_sleep_time_catch_up(time_before_sleep) ==
    0 - (time_before_sleep % RefreshInterval)

\* expected_sleep_time = interval - time_before_sleep % interval
expected_sleep_time(time_before_sleep) ==
    RefreshInterval - (time_before_sleep % RefreshInterval)

\* Monitor.__iter__, lines 130-135: the warning after a late wake-up
SleepWarns(time_before_sleep, time_after) ==
    time_after - time_before_sleep >= expected_sleep_time(time_before_sleep) + SleepDriftLimit

\* a collection that never warns
CollectWarnsNever(time_after, time_after_collect) == FALSE

\* Monitor.__iter__, lines 138-143: the warning after a slow collection
CollectWarns(time_after, time_after_collect) ==
    time_after_collect - time_after >= CollectDriftLimit

(***************************************************************************)
(* The state                                                               *)
(***************************************************************************)
VARIABLES
    pc,                 \* where the program is: "start", "sleep", "collect",
                        \* "replay", "body", "commit", "done"; when the
                        \* loop body is followed line by line, also "feed"
                        \* (before line 248) and "reset" (before line 262)
    now,                \* the wall clock, time.time()
    config,             \* [groups, load_replay, save_replay]
    load_file,          \* the snapshots of the file of --load-replay
    save_file,          \* the snapshots written to the file of --save-replay
    replay_in,          \* Monitor._replay_in: <<>> for None, else <<list>>
    replay_out,         \* Monitor._replay_out is an open file
    replay_pos,         \* how many items of _replay_in have been yielded
    last_time,          \* ProcessMonitor._last_time
    time_after_sleep,   \* the local of Monitor.__iter__
    snapshot,           \* the snapshot the loop body works on: <<>> or <<s>>
    next_commit,
    system_utilization,
    user_utilization,
    committed,          \* the lists of records the session has committed
    error,              \* "none", or the exception that ended main
    ticks,              \* the number of snapshots yielded so far
    twin,               \* a second replay of load_file under another clock
    since_reset,        \* history: the snapshots the loop body has worked on
                        \* since the windows were last reset (or since start)
    logged              \* the warnings the last step has logged: "sleep",
                        \* "collect", "drift", "commit"

vars == <<pc, now, config, load_file, save_file, replay_in, replay_out, replay_pos,
          last_time, time_after_sleep, snapshot, next_commit, system_utilization,
          user_utilization, committed, error, ticks, twin, since_reset, logged>>

\* the scheduler state MainLoopBody works on
Scheduler ==
    [next_commit        |-> next_commit,
     system_utilization |-> system_utilization,
     user_utilization   |-> user_utilization,
     committed          |-> committed,
     error              |-> error]

NoTwin == [now |-> 0, next_commit |-> 0, system_utilization |-> <<>>,
           user_utilization |-> <<>>, committed |-> <<>>, error |-> "none"]

\* the state when main is entered with the given arguments and files
InitWith(starts, groupConfigs, loads, saves, files) ==
    /\ pc = "start"
    /\ now \in starts
    /\ config \in [groups : groupConfigs, load_replay : loads, save_replay : saves]
    /\ load_file \in files
    /\ save_file = <<>>
    /\ replay_in = <<>>
    /\ replay_out = FALSE
    /\ replay_pos = 0
    /\ last_time = 0
    /\ time_after_sleep = 0
    /\ snapshot = <<>>
    /\ next_commit = 0
    /\ system_utilization = <<>>
    /\ user_utilization = <<>>
    /\ committed = <<>>
    /\ error = "none"
    /\ ticks = 0
    /\ twin = NoTwin
    /\ since_reset = <<>>
    /\ logged = {}

(***************************************************************************)
(* The steps of main                                                       *)
(***************************************************************************)
\* main up to the loop: Monitor.__init__ (ProcessMonitor.__init__, the replay
\* files) and the first boundary, line 234.  twinStarts: the clock at which
\* the second replay starts.
Start(twinStarts) ==
    /\ pc = "start"
    /\ last_time' = now
    /\ IF config.load_replay /\ config.save_replay
       THEN /\ replay_out' = TRUE
            /\ save_file' = <<>>
            /\ replay_in' = <<>>
       ELSE IF config.load_replay
       THEN /\ replay_in' = <<load_replay(load_file)>>
            /\ UNCHANGED <<replay_out, save_file>>
       ELSE UNCHANGED <<replay_in, replay_out, save_file>>
    /\ next_commit' = calculate_next_snapshot(now)
    /\ \E w \in twinStarts :
          twin' = IF replay_in' # <<>>
                  THEN [NoTwin EXCEPT !.now = w,
                                      !.next_commit = calculate_next_snapshot(w)]
                  ELSE twin
    /\ pc' = IF replay_in' # <<>> THEN "replay" ELSE "sleep"
    /\ logged' = {}
    /\ UNCHANGED <<now, config, load_file, replay_pos, time_after_sleep, snapshot,
                   system_utilization, user_utilization, committed, error, ticks, since_reset>>

\* Monitor.__iter__, lines 122-135: sleep until the next multiple of the
\* interval; time.sleep returns late by one of lateness
Sleep(lateness, maxTicks) ==
    /\ pc = "sleep"
    /\ ticks < maxTicks
    /\ \E late \in lateness :
          time_after_sleep' = now + expected_sleep_time(now) + late
    /\ now' = time_after_sleep'
    /\ logged' = IF SleepWarns(now, time_after_sleep') THEN {"sleep"} ELSE {}
    /\ pc' = "collect"
    /\ UNCHANGED <<config, load_file, save_file, replay_in, replay_out, replay_pos,
                   last_time, snapshot, next_commit, system_utilization,
                   user_utilization, committed, error, ticks, twin, since_reset>>

\* Monitor.__iter__, lines 137-149: collect and yield the snapshot; an
\* exception that leaves collect leaves the generator, the loop and main
Collect(observations, durations) ==
    /\ pc = "collect"
    /\ \E obs \in observations, d \in durations :
          /\ now' = now + d
          /\ IF CollectRaises(obs) = "none"
             THEN /\ snapshot' = <<Snapshot(time_after_sleep, collect(obs, last_time, now))>>
                  /\ last_time' = now
                  /\ ticks' = ticks + 1
                  /\ logged' = IF CollectWarns(time_after_sleep, now')
                               THEN {"collect"} ELSE {}
                  /\ pc' = "body"
                  /\ UNCHANGED <<error, replay_out>>
             ELSE /\ error' = CollectRaises(obs)
                  /\ pc' = "done"
                  /\ replay_out' = FALSE
                  /\ logged' = {}
                  /\ UNCHANGED <<snapshot, last_time, ticks>>
    /\ UNCHANGED <<config, load_file, save_file, replay_in, replay_pos,
                   time_after_sleep, next_commit, system_utilization,
                   user_utilization, committed, twin, since_reset>>

\* Monitor.__iter__, line 116: yield the next item of _replay_in
ReplayYield ==
    /\ pc = "replay"
    /\ replay_pos < Len(replay_in[1])
    /\ snapshot' = <<replay_in[1][replay_pos + 1]>>
    /\ replay_pos' = replay_pos + 1
    /\ ticks' = ticks + 1
    /\ pc' = "body"
    /\ logged' = {}
    /\ UNCHANGED <<now, config, load_file, save_file, replay_in, replay_out, last_time,
                   time_after_sleep, next_commit, system_utilization,
                   user_utilization, committed, error, twin, since_reset>>

\* Monitor.__iter__, line 116: _replay_in is exhausted, the loop and main end
ReplayEnd ==
    /\ pc = "replay"
    /\ replay_pos = Len(replay_in[1])
    /\ pc' = "done"
    /\ replay_out' = FALSE
    /\ logged' = {}
    /\ UNCHANGED <<now, config, load_file, save_file, replay_in, replay_pos, last_time,
                   time_after_sleep, snapshot, next_commit, system_utilization,
                   user_utilization, committed, error, ticks, twin, since_reset>>

\* the second replay works on the same snapshot under its own clock
TwinBody(snap, d) ==
    IF replay_in # <<>> /\ twin.error = "none"
    THEN LET r == MainLoopBody(twin, snap, config.groups, twin.now + d, TRUE)
         IN  [now                |-> IF CommitDue(DriftCheck(twin.next_commit, snap), snap)
                                     THEN twin.now + d ELSE twin.now,
              next_commit        |-> r.next_commit,
              system_utilization |-> r.system_utilization,
              user_utilization   |-> r.user_utilization,
              committed          |-> r.committed,
              error              |-> r.error]
    ELSE twin

\* main, lines 237-253: the drift check and the aggregation of the snapshot
\* yielded
Aggregate ==
    /\ pc = "body"
    /\ LET r == AggregateStep(Scheduler, snapshot[1], config.groups)
       IN  IF AggregateRaises(snapshot[1], config.groups)
           THEN /\ next_commit' = r.next_commit
                /\ system_utilization' = r.system_utilization
                /\ user_utilization' =
                      IF CreateTrackersRaises(config.groups) THEN user_utilization
                      ELSE r.user_utilization
                /\ error' = "ValueError"
                /\ pc' = "done"
                /\ replay_out' = FALSE
                /\ UNCHANGED since_reset
           ELSE /\ next_commit' = r.next_commit
                /\ system_utilization' = r.system_utilization
                /\ user_utilization' = r.user_utilization
                /\ since_reset' = Append(since_reset, snapshot[1])
                /\ pc' = "commit"
                /\ UNCHANGED <<error, replay_out>>
    /\ logged' = IF DriftWarns(next_commit, snapshot[1]) THEN {"drift"} ELSE {}
    /\ UNCHANGED <<now, config, load_file, save_file, replay_in, replay_pos,
                   last_time, time_after_sleep, snapshot, committed, ticks, twin>>

\* main, lines 255-265: the commit check.  The write of a commit takes one of
\* durations and returns or fails as sinks tells.
CommitCheck(durations, sinks) ==
    /\ pc = "commit"
    /\ \E d \in durations, ok \in sinks :
          LET snap == snapshot[1]
              r    == CommitStep(Scheduler, snap, now + d, ok)
          IN  /\ (~CommitDue(next_commit, snap) => (d = 0 /\ ok))
              /\ next_commit' = r.next_commit
              /\ system_utilization' = r.system_utilization
              /\ user_utilization' = r.user_utilization
              /\ committed' = r.committed
              /\ error' = r.error
              /\ now' = now + d
              /\ pc' = IF r.error # "none" THEN "done"
                       ELSE IF replay_in # <<>> THEN "replay" ELSE "sleep"
              /\ replay_out' = IF r.error # "none" THEN FALSE ELSE replay_out
              /\ since_reset' = IF Len(r.committed) > Len(committed) THEN <<>>
                                ELSE since_reset
              /\ logged' = IF Len(r.committed) > Len(committed) /\ CommitWarns(now, now + d)
                           THEN {"commit"} ELSE {}
    /\ \E d2 \in durations : twin' = TwinBody(snapshot[1], d2)
    /\ UNCHANGED <<config, load_file, save_file, replay_in, replay_pos, last_time,
                   time_after_sleep, snapshot, ticks>>

\* main, lines 237-246, alone: the drift check and the snapshot added to the
\* system window
AddSystem ==
    /\ pc = "body"
    /\ next_commit' = DriftCheck(next_commit, snapshot[1])
    /\ system_utilization' = add_measurement(system_utilization, snapshot[1].system)
    /\ logged' = IF DriftWarns(next_commit, snapshot[1]) THEN {"drift"} ELSE {}
    /\ pc' = "feed"
    /\ UNCHANGED <<now, config, load_file, save_file, replay_in, replay_out, replay_pos,
                   last_time, time_after_sleep, snapshot, user_utilization, committed,
                   error, ticks, twin, since_reset>>

\* main, lines 247-253, alone: the measurements fed to the trackers of their
\* owners
FeedWindows ==
    /\ pc = "feed"
    /\ IF AggregateRaises(snapshot[1], config.groups)
       THEN /\ user_utilization' =
                  IF CreateTrackersRaises(config.groups) THEN user_utilization
                  ELSE FeedUsers(user_utilization, aggregate(snapshot[1].processes),
                                 config.groups)
            /\ error' = "ValueError"
            /\ pc' = "done"
            /\ replay_out' = FALSE
            /\ UNCHANGED since_reset
       ELSE /\ user_utilization' =
                  FeedUsers(user_utilization, aggregate(snapshot[1].processes),
                            config.groups)
            /\ since_reset' = Append(since_reset, snapshot[1])
            /\ pc' = "commit"
            /\ UNCHANGED <<error, replay_out>>
    /\ logged' = {}
    /\ UNCHANGED <<now, config, load_file, save_file, replay_in, replay_pos, last_time,
                   time_after_sleep, snapshot, next_commit, system_utilization,
                   committed, ticks, twin>>

\* main, lines 255-260, alone: the commit check and, when the commit is due,
\* commit_utilization_records; its write takes one of durations and returns
\* or fails as sinks tells
CommitWrite(durations, sinks) ==
    /\ pc = "commit"
    /\ \E d \in durations, ok \in sinks :
          LET r == CommitStep(Scheduler, snapshot[1], now + d, ok)
          IN  /\ (~CommitDue(next_commit, snapshot[1]) => (d = 0 /\ ok))
              /\ now' = now + d
              /\ committed' = r.committed
              /\ error' = r.error
              /\ pc' = IF r.error # "none" THEN "done"
                       ELSE IF CommitDue(next_commit, snapshot[1]) THEN "reset"
                       ELSE IF replay_in # <<>> THEN "replay" ELSE "sleep"
              /\ replay_out' = IF r.error # "none" THEN FALSE ELSE replay_out
              /\ logged' = IF Len(r.committed) > Len(committed) /\ CommitWarns(now, now + d)
                           THEN {"commit"} ELSE {}
    /\ UNCHANGED <<config, load_file, save_file, replay_in, replay_pos, last_time,
                   time_after_sleep, snapshot, next_commit, system_utilization,
                   user_utilization, ticks, twin, since_reset>>

\* main, lines 262-265, alone: the next boundary and the windows emptied
ResetWindows ==
    /\ pc = "reset"
    /\ next_commit' = calculate_next_snapshot(CommitTimestamp(snapshot[1], now))
    /\ system_utilization' = reset(system_utilization)
    /\ user_utilization' = <<>>
    /\ since_reset' = <<>>
    /\ pc' = IF replay_in # <<>> THEN "replay" ELSE "sleep"
    /\ logged' = {}
    /\ UNCHANGED <<now, config, load_file, save_file, replay_in, replay_out, replay_pos,
                   last_time, time_after_sleep, snapshot, committed, error, ticks, twin>>

\* KeyboardInterrupt while a tick is worked on: the exception is raised
\* between two bytecodes of the main thread, wherever the signal finds it;
\* contextlib.suppress of line 225 ends the with-block and main returns
InterruptTick ==
    /\ pc \in {"collect", "replay", "body", "feed", "commit", "reset"}
    /\ pc' = "done"
    /\ replay_out' = FALSE
    /\ logged' = {}
    /\ UNCHANGED <<now, config, load_file, save_file, replay_in, replay_pos, last_time,
                   time_after_sleep, snapshot, next_commit, system_utilization,
                   user_utilization, committed, error, ticks, twin, since_reset>>

\* an interrupt that writes the records of the windows before main returns
InterruptFlushes ==
    /\ pc = "sleep"
    /\ pc' = "done"
    /\ replay_out' = FALSE
    /\ logged' = {}
    /\ committed' = IF CommitRaises(system_utilization, user_utilization) THEN committed
                     ELSE Append(committed,
                                 commit_utilization_records(system_utilization,
                                                            user_utilization))
    /\ UNCHANGED <<now, config, load_file, save_file, replay_in, replay_pos, last_time,
                   time_after_sleep, snapshot, next_commit, system_utilization,
                   user_utilization, error, ticks, twin, since_reset>>

\* KeyboardInterrupt while the loop sleeps: suppressed, main returns
Interrupt ==
    /\ pc = "sleep"
    /\ pc' = "done"
    /\ replay_out' = FALSE
    /\ logged' = {}
    /\ UNCHANGED <<now, config, load_file, save_file, replay_in, replay_pos, last_time,
                   time_after_sleep, snapshot, next_commit, system_utilization,
                   user_utilization, committed, error, ticks, twin, since_reset>>

\* the snapshot s with its times read on a clock that is d behind
ShiftSnapshot(s, d) ==
    [timestamp |-> s.timestamp - d,
     system    |-> [s.system EXCEPT !.time_start = @ - d, !.time_end = @ - d],
     processes |-> [i \in DOMAIN s.processes |->
                       [s.processes[i] EXCEPT !.time_start = @ - d, !.time_end = @ - d]]]

\* Monitor.__iter__, lines 122-135, in a run that is followed for ever: the
\* sleep after a commit begins when the records of the commit have been
\* taken over
LiveSleep ==
    /\ committed = <<>>
    /\ Sleep(LiveLateness, LiveTicks)

\* a run that is followed for ever: the database takes over the records of
\* the commit that has returned, the count of snapshots starts again, and
\* all times are read from here on on a clock set back by whole commit
\* intervals to the second interval.  No step of main is taken.  The steps
\* of main depend on differences of times and on times modulo the refresh and
\* commit intervals only, so they are the same on either clock.
Rebase ==
    /\ pc = "sleep"
    /\ committed # <<>>
    /\ LET d == (now \div RecordInterval - 1) * RecordInterval
       IN  /\ now' = now - d
           /\ last_time' = last_time - d
           /\ time_after_sleep' = time_after_sleep - d
           /\ next_commit' = next_commit - d
           /\ snapshot' = <<ShiftSnapshot(snapshot[1], d)>>
           /\ system_utilization' =
                  [i \in DOMAIN system_utilization |->
                      [system_utilization[i] EXCEPT !.time_start = @ - d,
                                                    !.time_end = @ - d]]
           /\ since_reset' = [i \in DOMAIN since_reset |-> ShiftSnapshot(since_reset[i], d)]
    /\ committed' = <<>>
    /\ ticks' = 0
    /\ logged' = {}
    /\ UNCHANGED <<pc, config, load_file, save_file, replay_in, replay_out, replay_pos,
                   user_utilization, error, twin>>

(***************************************************************************)
(* Specifications                                                          *)
(***************************************************************************)
\* a live run: no replay file is read or written
Init == InitWith(StartTimes, GroupConfigs, {FALSE}, {FALSE}, {<<>>})

Next ==
    \/ Start({0})
    \/ Sleep(Lateness, MaxTicks)
    \/ Collect(Observations, CollectDurations)
    \/ Aggregate
    \/ CommitCheck(CommitDurations, BOOLEAN)
    \/ Interrupt

Spec == Init /\ [][Next]_vars

\* a live run without drift: time.sleep returns on the multiple of the
\* interval, the collection takes no time, the sink accepts every commit
InitNoDrift == InitWith(StartTimes, GroupConfigs, {FALSE}, {FALSE}, {<<>>})

NextNoDrift ==
    \/ Start({0})
    \/ Sleep({0}, MaxCalmTicks)
    \/ Collect(CalmObservations, {0})
    \/ Aggregate
    \/ CommitCheck(CommitDurations, {TRUE})

SpecNoDrift == InitNoDrift /\ [][NextNoDrift]_vars

\* a live run with --save-replay, with and without --load-replay
InitRecord == InitWith(StartTimes, {<<>>}, BOOLEAN, {TRUE}, {<<>>})

NextRecord ==
    \/ Start({0})
    \/ Sleep(Lateness, MaxTicks)
    \/ Collect(Observations, CollectDurations)
    \/ Aggregate
    \/ CommitCheck(CommitDurations, {TRUE})
    \/ Interrupt

SpecRecord == InitRecord /\ [][NextRecord]_vars

\* a file of --load-replay: snapshots recorded at the given times
ReplayFile(times, obs) ==
    [i \in DOMAIN times |->
        Snapshot(times[i],
                 collect(obs[i], IF i = 1 THEN times[1] - 10 ELSE times[i - 1], times[i]))]

ReplayFiles ==
    {ReplayFile(t, o) : t \in ReplayTimes, o \in [1..3 -> CalmObservations]}

\* a replay of a file, and beside it a second replay of the same file that
\* starts at another wall-clock time
InitReplay == InitWith(ReplayStartTimes, {<<>>}, {TRUE}, {FALSE}, ReplayFiles)

NextReplay ==
    \/ Start(ReplayStartTimes)
    \/ ReplayYield
    \/ Aggregate
    \/ CommitCheck(CommitDurations, {TRUE})
    \/ ReplayEnd

SpecReplay == InitReplay /\ [][NextReplay]_vars

\* a snapshot of a replay file, written at ts: its two processes have one
\* owner and one interval ("same"), one owner and two start times ("start")
\* or two end times ("end"), or two owners with an interval each ("owners")
MergeSnapshot(kind, ts) ==
    LET second == IF kind = "owners" THEN BobPy ELSE AliceSsh
        processes ==
            <<ProcMeasurement(AlicePy(1, 2), ts - 50, ts, MinUserId),
              ProcMeasurement(second,
                              IF kind \in {"start", "owners"} THEN ts - 40 ELSE ts - 50,
                              IF kind = "end" THEN ts + 1 ELSE ts,
                              MinUserId)>>
    IN  [timestamp |-> ts,
         system    |-> SystemMeasurement(processes, ts - 50, ts, 1, 1),
         processes |-> processes]

\* replay files of two snapshots
MergeFiles ==
    {<<MergeSnapshot(k1, 550), MergeSnapshot(k2, 600)>> :
        k1, k2 \in {"same", "start", "end", "owners"}}

\* a run that is live or replays a file whose measurements need not agree
InitMerge == InitWith(StartTimes, GroupConfigs, BOOLEAN, {FALSE}, MergeFiles)

NextMerge ==
    \/ Start({0})
    \/ Sleep({0}, MaxTicks)
    \/ Collect(GroupObservations, {0})
    \/ ReplayYield
    \/ ReplayEnd
    \/ Aggregate
    \/ CommitCheck({0}, {TRUE})

SpecMerge == InitMerge /\ [][NextMerge]_vars

\* the rules of one group: literal names, globs, the catch-all rule, a rule
\* with "?" alone, names that occur as a later argument or inside a name
FilterPatternLists ==
    {<<<<"s", "s", "h", "d">>>>,
     <<<<"*", ".", "p", "y">>>>,
     <<<<"*">>>>,
     <<<<"s", "s", "?", "d">>>>,
     <<<<"-", "D">>, <<"p", "y", "t", "h", "o", "n", "3">>>>,
     <<<<"s", "h">>, <<"*", "s", "s", "h", "d", " ", "-", "D">>>>,
     <<<<"s", "*", "d", " ", "?", "D">>>>,
     <<<<"*", "*">>>>,
     <<<<"s", "s", "h", "d">>, <<"*", ".", "p", "y">>>>}

\* conf.process_groups with one group "g" of each of the rule lists
FilterConfigs == {<<[name |-> "g", patterns |-> ps]>> : ps \in FilterPatternLists}

\* command lines: a daemon with its path, an interpreter with and without a
\* script, none, a bare name, a name as second argument, a name with "?",
\* a path with a trailing "/"
FilterCommands ==
    {<<<<"/", "u", "s", "r", "/", "s", "b", "i", "n", "/", "s", "s", "h", "d">>, <<"-", "D">>>>,
     <<<<"/", "u", "s", "r", "/", "b", "i", "n", "/", "p", "y", "t", "h", "o", "n", "3">>>>,
     <<>>,
     <<<<"s", "s", "h", "d">>>>,
     <<<<"p", "y", "t", "h", "o", "n", "3">>, <<"x", ".", "p", "y">>>>,
     <<<<"s", "h">>, <<"s", "s", "h", "d">>>>,
     <<<<"s", "s", "?", "d">>>>,
     <<<<"/", "u", "s", "r", "/", "s", "b", "i", "n", "/", "s", "s", "h", "d", "/">>, <<"-", "D">>>>}

\* alice's process with the command line command
AliceCmd(command) ==
    [pid |-> 5, uid |-> 1000, name |-> "alice", cpu |-> 1, mem |-> 1,
     command |-> command, create_time |-> <<15>>,
     cmdline_fault |-> "none", info_fault |-> "none"]

\* one process of alice in every tick
FilterObservations ==
    {[cpu |-> 1, mem |-> 1, procs |-> <<AliceCmd(c)>>] : c \in FilterCommands}

\* a live run with one configured group
InitFilters == InitWith(StartTimes, FilterConfigs, {FALSE}, {FALSE}, {<<>>})

NextFilters ==
    \/ Start({0})
    \/ Sleep({0}, MaxTicks)
    \/ Collect(FilterObservations, {0})
    \/ Aggregate
    \/ CommitCheck({0}, {TRUE})

SpecFilters == InitFilters /\ [][NextFilters]_vars

\* a live run whose sleeps, collections and commits take time
InitTiming == InitWith(StartTimes, GroupConfigs, {FALSE}, {FALSE}, {<<>>})

NextTiming ==
    \/ Start({0})
    \/ Sleep(TimingLateness, MaxTimingTicks)
    \/ Collect(TimingObservations, TimingCollectDurations)
    \/ Aggregate
    \/ CommitCheck(TimingCommitDurations, {TRUE})

SpecTiming == InitTiming /\ [][NextTiming]_vars

\* a live run in which a collection or the write of a commit may take longer
\* than the refresh interval
InitSlow == InitWith(StartTimes, GroupConfigs, {FALSE}, {FALSE}, {<<>>})

NextSlow ==
    \/ Start({0})
    \/ Sleep(SlowLateness, MaxTimingTicks)
    \/ Collect(TimingObservations, SlowCollectDurations)
    \/ Aggregate
    \/ CommitCheck(SlowCommitDurations, {TRUE})

SpecSlow == InitSlow /\ [][NextSlow]_vars

\* a live run that may be suspended for longer than a commit interval
InitTile == InitWith(StartTimes, GroupConfigs, {FALSE}, {FALSE}, {<<>>})

NextTile ==
    \/ Start({0})
    \/ Sleep(TileLateness, MaxTimingTicks)
    \/ Collect(TimingObservations, CollectDurations)
    \/ Aggregate
    \/ CommitCheck(CommitDurations, {TRUE})

SpecTile == InitTile /\ [][NextTile]_vars

\* main can go on from where it is: it is not at its end, and a sleep is
\* not held back by the bound on the snapshots of one window
CanAdvance ==
    \/ pc \in {"start", "collect", "body", "commit"}
    \/ pc = "sleep" /\ (ticks < LiveTicks \/ committed # <<>>)

\* main goes on to another position
Advance ==
    /\ CanAdvance
    /\ pc' \in {"sleep", "collect", "body", "commit", "done"}

\* a live run that never ends: no tick is 10 s or more late, every collection
\* and every commit returns, no interrupt arrives.  The loop is sequential
\* and each of its steps ends (time.sleep, collect and the database write
\* return), so main does not stay for ever at a position from which it can
\* go on.
InitLive == InitWith(StartTimes, {<<>>}, {FALSE}, {FALSE}, {<<>>})

NextLive ==
    \/ Start({0})
    \/ LiveSleep
    \/ Collect(LiveObservations, {0})
    \/ Aggregate
    \/ CommitCheck(LiveCommitDurations, {TRUE})
    \/ Rebase

SpecLive == InitLive /\ [][NextLive]_vars /\ WF_pc(Advance)

\* the replay file of a run that may be interrupted
CancelFiles == {ReplayFile(<<550, 600, 650>>, [i \in 1..3 |-> [cpu |-> 3, mem |-> 1, procs |-> <<AlicePy(2, 1), AliceSsh>>]])}

\* a run, live or replayed, followed line by line through the loop body, that
\* a KeyboardInterrupt may end at any point
InitCancel == InitWith(StartTimes, GroupConfigs, BOOLEAN, {FALSE}, CancelFiles)

NextCancel ==
    \/ Start({0})
    \/ Sleep({0}, MaxTicks)
    \/ Collect(TimingObservations, {0})
    \/ ReplayYield
    \/ ReplayEnd
    \/ AddSystem
    \/ FeedWindows
    \/ CommitWrite(CommitDurations, BOOLEAN)
    \/ ResetWindows
    \/ Interrupt
    \/ InterruptTick

SpecCancel == InitCancel /\ [][NextCancel]_vars

\* a live run in which the sampling of one process fails at every tick
InitSampling == InitWith(StartTimes, {<<>>}, {FALSE}, {FALSE}, {<<>>})

NextSampling ==
    \/ Start({0})
    \/ Sleep({0}, MaxTicks)
    \/ Collect(SamplingObservations, {0})
    \/ Aggregate
    \/ CommitCheck({0}, {TRUE})

SpecSampling == InitSampling /\ [][NextSampling]_vars

\* a live run without drift under each of the group configurations
InitGroups == InitWith(StartTimes, NamedGroupConfigs, {FALSE}, {FALSE}, {<<>>})

NextGroups ==
    \/ Start({0})
    \/ Sleep({0}, MaxTicks)
    \/ Collect(GroupObservations, {0})
    \/ Aggregate
    \/ CommitCheck({0}, {TRUE})

SpecGroups == InitGroups /\ [][NextGroups]_vars

(***************************************************************************)
(* Reference values, computed from the snapshots aggregated since the last *)
(* reset (since_reset) and not from the windows                            *)
(***************************************************************************)
SetMaxOr0(S) == IF S = {} THEN 0 ELSE SetMax(S)

\* the snapshot the loop body is working on
Tick == snapshot[1]

\* the processes of owner user in snap that a filter of patterns accepts
RefMatching(snap, user, patterns) ==
    SelectSeqBy(snap.processes,
                {p \in Range(snap.processes) :
                    p.username = user /\ CommandFilters(patterns, p.command)})

\* the snapshots since the last reset in which (user, patterns) has a process
RefTicks(user, patterns) ==
    {i \in DOMAIN since_reset : RefMatching(since_reset[i], user, patterns) # <<>>}

RefCpu(snap, user, patterns) ==
    LET m == RefMatching(snap, user, patterns)
    IN  SumSeq([k \in DOMAIN m |-> m[k].cpu_usage])

RefMem(snap, user, patterns) ==
    LET m == RefMatching(snap, user, patterns)
    IN  SumSeq([k \in DOMAIN m |-> m[k].mem_usage])

\* the (pid, create_time) pairs of the processes of procs whose creation time
\* is known
RefIdentities(procs) ==
    {<<procs[k].pid, procs[k].create_time[1]>> :
        k \in {j \in DOMAIN procs : procs[j].create_time # <<>>}}

\* sum(value * duration) / sum(duration) over the entries of a window
TimeWeightedCpu(w) ==
    IF w = <<>> THEN <<0, 1>>
    ELSE <<SumSeq([i \in DOMAIN w |-> w[i].cpu_usage * (w[i].time_end - w[i].time_start)]),
           SumSeq([i \in DOMAIN w |-> w[i].time_end - w[i].time_start])>>

TimeWeightedMem(w) ==
    IF w = <<>> THEN <<0, 1>>
    ELSE <<SumSeq([i \in DOMAIN w |-> w[i].mem_usage * (w[i].time_end - w[i].time_start)]),
           SumSeq([i \in DOMAIN w |-> w[i].time_end - w[i].time_start])>>

\* the trackers of user_utilization as the set of [user, tracker]
Trackers ==
    UNION {{[user |-> user_utilization[i].user, tracker |-> user_utilization[i].groups[g]] :
               g \in DOMAIN user_utilization[i].groups} : i \in DOMAIN user_utilization}

\* user_utilization without the trackers whose window is empty
NonEmptyPairs(users) ==
    [i \in DOMAIN users |->
        [users[i] EXCEPT !.groups =
            SelectSeqBy(@, {g \in Range(@) : g.measurements # <<>>})]]

(***************************************************************************)
(* Claims                                                                  *)
(***************************************************************************)
\* C1: in a live run without drift a commit happens on exactly the ticks
\* whose timestamp is a multiple of the commit interval, and right after a
\* commit the system window and every per-user window are empty.
C1_CommitOnMultiplesOfC ==
    [][pc = "commit" =>
          /\ (Tick.timestamp % RecordInterval = 0) <=> (Len(committed') = Len(committed) + 1)
          /\ Len(committed') > Len(committed) =>
                (system_utilization' = <<>> /\ user_utilization' = <<>>)]_vars

\* C2: at every commit the sink is handed exactly one system record and one
\* user record per (user, group) pair whose window is not empty; a pair with
\* an empty window adds no record and the commit completes.
C2_CommitRecordsOfNonEmptyPairs ==
    [][(pc = "commit" /\ CommitDue(next_commit, Tick) /\ error' # "SinkError") =>
          /\ Len(committed') = Len(committed) + 1
          /\ committed'[Len(committed')] =
                commit_utilization_records(system_utilization,
                                           NonEmptyPairs(user_utilization))]_vars

\* C3: the average cpu and mem of every per-(user, group) window is
\* sum(value * duration) / sum(duration) over its entries, and 0 when empty.
C3_GroupAverageTimeWeighted ==
    \A t \in Trackers :
        /\ RatEq(PS_average_cpu_usage(t.tracker.measurements),
                 TimeWeightedCpu(t.tracker.measurements))
        /\ RatEq(PS_average_mem_usage(t.tracker.measurements),
                 TimeWeightedMem(t.tracker.measurements))

\* C4: the average cpu and mem of the system window is
\* sum(value * duration) / sum(duration) over its entries, for one entry and
\* for many, and 0 when empty.
C4_SystemAverageTimeWeighted ==
    /\ RatEq(SS_average_cpu_usage(system_utilization), TimeWeightedCpu(system_utilization))
    /\ RatEq(SS_average_mem_usage(system_utilization), TimeWeightedMem(system_utilization))

\* C5: the peak cpu (mem) of a window is the largest cpu (mem) value added
\* since the last reset, and 0 when nothing was added since.
C5_PeakIsMaxSinceReset ==
    /\ SS_peak_cpu_usage(system_utilization) =
          SetMaxOr0({since_reset[i].system.cpu_usage : i \in DOMAIN since_reset})
    /\ SS_peak_mem_usage(system_utilization) =
          SetMaxOr0({since_reset[i].system.mem_usage : i \in DOMAIN since_reset})
    /\ \A t \in Trackers :
          LET added == {LET m == RefMatching(since_reset[i], t.user, t.tracker.patterns)
                        IN  [tick |-> i,
                             n    |-> Len(m),
                             cpu  |-> SumSeq([k \in DOMAIN m |-> m[k].cpu_usage]),
                             mem  |-> SumSeq([k \in DOMAIN m |-> m[k].mem_usage])] :
                           i \in DOMAIN since_reset}
              seen  == {a \in added : a.n > 0}
          IN  /\ PS_peak_cpu_usage(t.tracker.measurements) = SetMaxOr0({a.cpu : a \in seen})
              /\ PS_peak_mem_usage(t.tracker.measurements) = SetMaxOr0({a.mem : a \in seen})

\* a commit has reset the windows, and the peak of the new system window is
\* below the peak of the window committed
C5_Witness ==
    /\ Len(committed) = 1
    /\ Len(system_utilization) = 1
    /\ user_utilization # <<>>
    /\ SS_peak_cpu_usage(system_utilization) = 1
    /\ committed[1][Len(committed[1])].peak_cpu = 3

\* C6: the unique-process count of a window is the number of distinct
\* (pid, create_time) pairs over its entries: the same process seen in many
\* ticks counts once, two processes with one pid and two creation times
\* count twice.
C6_UniqueProcessCount ==
    /\ SS_user_processes(system_utilization) =
          Cardinality(UNION {RefIdentities(since_reset[i].processes) :
                                i \in DOMAIN since_reset})
    /\ \A t \in Trackers :
          PS_processes(t.tracker.measurements) =
              Cardinality(UNION {RefIdentities(RefMatching(since_reset[i], t.user,
                                                           t.tracker.patterns)) :
                                    i \in DOMAIN since_reset})

\* a system window of three entries that saw pid 2 in two ticks (once created
\* at 11) and pid 1 created at 10 and at 12
C6_Witness ==
    /\ Len(system_utilization) = 3
    /\ SS_user_processes(system_utilization) = 3
    /\ \E i, j \in DOMAIN system_utilization :
          /\ i # j
          /\ [pid |-> 2, create_time |-> 11] \in system_utilization[i].user_processes
          /\ [pid |-> 2, create_time |-> 11] \in system_utilization[j].user_processes
          /\ [pid |-> 1, create_time |-> 10] \in system_utilization[i].user_processes
          /\ [pid |-> 1, create_time |-> 12] \in system_utilization[j].user_processes

C8_ReplayInFileOrder ==
    /\ (replay_in # <<>> /\ pc \in {"body", "commit"}) => Tick = load_file[ticks]
    /\ (replay_in # <<>> /\ pc = "done" /\ error = "none") => ticks = Len(load_file)

\* C9: with --save-replay and no --load-replay every snapshot yielded is
\* appended to the replay file, in the order of the yields.
C9_RecordAppendsSnapshots ==
    (config.save_replay /\ ~config.load_replay /\ pc \in {"body", "commit"}) =>
        (Len(save_file) = ticks /\ save_file[ticks] = Tick)

\* C10: a tick 10 s or more past the scheduled boundary moves the boundary to
\* the smallest multiple of the commit interval above the tick's timestamp;
\* no commit is made for a boundary missed by 10 s or more, and a tick
\* commits at most once.
C10_RealignWithoutCatchUp ==
    [][/\ (pc = "body" /\ Tick.timestamp - next_commit >= DriftLimit) =>
             /\ next_commit' % RecordInterval = 0
             /\ next_commit' > Tick.timestamp
             /\ next_commit' - RecordInterval <= Tick.timestamp
       /\ (pc = "commit" /\ Len(committed') > Len(committed)) =>
             /\ Len(committed') = Len(committed) + 1
             /\ Tick.timestamp - next_commit < DriftLimit]_vars

\* a tick that woke after two boundaries had passed: its interval spans two
\* commit intervals, the boundary lies ahead of it and nothing was committed
C10_Witness ==
    /\ pc = "sleep"
    /\ ticks > 0
    /\ committed = <<>>
    /\ \E i \in DOMAIN system_utilization :
          system_utilization[i].time_end - system_utilization[i].time_start
              >= 2 * RecordInterval
    /\ next_commit > Tick.timestamp
    /\ next_commit - RecordInterval <= Tick.timestamp

\* whether w1 is w2 with entries appended
IsPrefix(w1, w2) == Len(w1) <= Len(w2) /\ SubSeq(w2, 1, Len(w1)) = w1

\* the window of (user, group name) in users, <<>> when there is none
WindowOf(users, user, name) ==
    LET hits == {<<i, g>> \in UNION {{<<i, g>> : g \in DOMAIN users[i].groups} :
                                        i \in DOMAIN users} :
                    users[i].user = user /\ users[i].groups[g].name = name}
    IN  IF hits = {} THEN <<>>
        ELSE LET h == CHOOSE h \in hits : TRUE
             IN  users[h[1]].groups[h[2]].measurements

\* the tick being worked on is 10 s or more past the scheduled boundary
Realigns == pc = "body" /\ Tick.timestamp - next_commit >= DriftLimit

\* C11 (as claimed): when a tick realigns the boundary, the entries that were
\* in the windows before it are discarded: after the tick's aggregation the
\* system window and every per-user window hold the tick's own entry only.
C11_RealignDiscardsWindow ==
    [][Realigns =>
          /\ system_utilization' = <<Tick.system>>
          /\ \A i \in DOMAIN user_utilization' :
                \A g \in DOMAIN user_utilization'[i].groups :
                    Len(user_utilization'[i].groups[g].measurements) <= 1]_vars

\* C11 (amended): when a tick realigns the boundary, nothing is removed from
\* a window: the tick's entry is appended to the entries already there, and
\* the record committed next starts at the first entry appended since the
\* last commit, before the missed boundary.
C11_RealignExtendsWindow ==
    [][/\ Realigns =>
             /\ system_utilization' = Append(system_utilization, Tick.system)
             /\ \A t \in Trackers :
                   IsPrefix(t.tracker.measurements,
                            WindowOf(user_utilization', t.user, t.tracker.name))
       /\ (pc = "commit" /\ Len(committed') > Len(committed)) =>
             LET rec == committed'[Len(committed')]
             IN  rec[Len(rec)].time_start =
                     timestamp_to_round_utc(since_reset[1].system.time_start)]_vars

\* a record was committed whose window was begun before a boundary that was
\* missed by 10 s or more: it spans more than one commit interval
C11_Witness ==
    /\ Len(committed) = 1
    /\ LET rec == committed[1][Len(committed[1])]
       IN  /\ rec.time_start < 60
           /\ rec.time_end >= 120

\* the entry that the processes m of user make in the tick of snap
RefEntryOf(snap, user, m) ==
    [username   |-> user,
     time_start |-> snap.system.time_start,
     time_end   |-> snap.system.time_end,
     cpu_usage  |-> SumSeq([k \in DOMAIN m |-> m[k].cpu_usage]),
     mem_usage  |-> SumSeq([k \in DOMAIN m |-> m[k].mem_usage]),
     processes  |-> {[pid |-> id[1], create_time |-> id[2]] : id \in RefIdentities(m)}]

\* the entry that the processes of user accepted by patterns make in the tick
\* of snap, computed from the snapshot
RefEntry(snap, user, patterns) ==
    RefEntryOf(snap, user, RefMatching(snap, user, patterns))

RECURSIVE RefWindowOf(_, _, _)
\* the entries of (user, patterns) over the snapshots snaps, in order
RefWindowOf(snaps, user, patterns) ==
    IF snaps = <<>> THEN <<>>
    ELSE LET m == RefMatching(Head(snaps), user, patterns)
         IN  (IF m # <<>> THEN <<RefEntryOf(Head(snaps), user, m)>> ELSE <<>>)
             \o RefWindowOf(Tail(snaps), user, patterns)

\* the owners seen in the snapshots aggregated since the last reset
RefOwners ==
    UNION {{since_reset[i].processes[k].username : k \in DOMAIN since_reset[i].processes} :
              i \in DOMAIN since_reset}

\* C12: in a live run every system measurement and every merged entry that
\* was appended since the last commit is in its window, once, until a commit
\* writes the records of exactly these windows and empties them: no entry is
\* dropped before a commit and none is carried into a second record.
C12_EveryEntryCommittedOnce ==
    [][/\ system_utilization' = [i \in DOMAIN since_reset' |-> since_reset'[i].system]
       /\ {user_utilization'[i].user : i \in DOMAIN user_utilization'} = RefOwners'
       /\ \A t \in Trackers' :
             t.tracker.measurements = RefWindowOf(since_reset', t.user, t.tracker.patterns)
       /\ (pc = "commit" /\ Len(committed') > Len(committed)) =>
             /\ committed' = Append(committed,
                                    commit_utilization_records(system_utilization,
                                                               user_utilization))
             /\ system_utilization' = <<>>
             /\ user_utilization' = <<>>
             /\ since_reset' = <<>>]_vars

\* a live run without realignment has committed the window of its first two
\* ticks (54.0 s to 60.0 s) with a named group configured, and the window of
\* the third tick holds that tick's entries only
C12_Witness ==
    /\ config.groups # <<>>
    /\ Len(committed) = 1
    /\ Len(committed[1]) >= 3
    /\ committed[1][Len(committed[1])].time_start = 54
    /\ committed[1][Len(committed[1])].time_end = 60
    /\ Len(system_utilization) = 1
    /\ system_utilization[1].time_start = 600
    /\ user_utilization # <<>>

\* no two entries of the window w overlap
NonOverlapping(w) ==
    \A i, j \in DOMAIN w : i < j => w[i].time_end <= w[j].time_start

\* the system window and every tracker window
AllWindows == {system_utilization} \cup {t.tracker.measurements : t \in Trackers}

\* the multiples of the commit interval up to ts
BoundariesUpTo(ts) == {k * RecordInterval : k \in 0..(ts \div RecordInterval)}

\* C13 (as claimed): the entries of a window never overlap, and at the start
\* of a tick there is no multiple B of the commit interval such that a window
\* holds an entry that ended at or before B while the tick's timestamp is
\* past B.
C13_WindowNeverCrossesBoundary ==
    /\ \A w \in AllWindows : NonOverlapping(w)
    /\ pc = "body" =>
          \A w \in AllWindows : \A B \in BoundariesUpTo(Tick.timestamp) :
              ~(Tick.timestamp > B /\ \E i \in DOMAIN w : w[i].time_end <= B)

\* C13 (amended): the entries of a window never overlap, and at the start of
\* a tick every entry of the system window was appended at a tick that had
\* not reached the boundary scheduled now (its timestamp + 0.1 s lies before
\* next_commit): a window reaches across a boundary only through the tick
\* that arrives past it.
C13_WindowBelowScheduledBoundary ==
    /\ \A w \in AllWindows : NonOverlapping(w)
    /\ pc = "body" =>
          /\ Len(system_utilization) = Len(since_reset)
          /\ \A i \in DOMAIN since_reset :
                /\ system_utilization[i] = since_reset[i].system
                /\ since_reset[i].timestamp + CommitTolerance < next_commit

\* a tick starts past the scheduled boundary while the windows hold the
\* entries of an earlier tick
C13_Witness ==
    /\ pc = "body"
    /\ Tick.timestamp > next_commit
    /\ Len(system_utilization) = 1
    /\ system_utilization[1].time_end < next_commit
    /\ \E t \in Trackers : Len(t.tracker.measurements) = 1

\* b is the smallest multiple of the commit interval strictly above t
NextBoundaryAfter(b, t) ==
    /\ b % RecordInterval = 0
    /\ b > t
    /\ b - RecordInterval <= t

\* C14: the boundary computed at start is the smallest multiple of the commit
\* interval strictly above the wall clock (so at most one interval ahead),
\* and the boundary computed after a commit is the smallest multiple strictly
\* above min(tick timestamp + 0.1 s, wall clock after the commit).
C14_NextBoundaryStrictlyAfterNow ==
    [][/\ pc = "start" => NextBoundaryAfter(next_commit', now)
       /\ (pc = "commit" /\ Len(committed') > Len(committed)) =>
             NextBoundaryAfter(next_commit',
                               IF Tick.timestamp + CommitTolerance <= now'
                               THEN Tick.timestamp + CommitTolerance ELSE now')]_vars

\* a tick at 60.0 s has committed while the wall clock still read 60.0 s, a
\* multiple of the commit interval: the next boundary is 120.0 s
C14_Witness ==
    /\ pc = "sleep"
    /\ Len(committed) = 1
    /\ Tick.timestamp = 600
    /\ now = 600
    /\ next_commit = 1200

\* C15: when the sink fails during a commit the error ends main: nothing is
\* committed for that tick, the windows and the boundary are left as they
\* were (they are reset only after a commit that returned), the loop is left
\* and no tick is processed afterwards.
C15_SinkFailureEndsLoop ==
    [][/\ error' = "SinkError" =>
             /\ pc' = "done"
             /\ committed' = committed
             /\ system_utilization' = system_utilization
             /\ user_utilization' = user_utilization
             /\ next_commit' = next_commit
             /\ ticks' = ticks
       /\ error = "SinkError" => UNCHANGED vars
       /\ (system_utilization' = <<>> /\ system_utilization # <<>>) =>
             (error' = "none" /\ Len(committed') = Len(committed) + 1)]_vars

\* the sink failed at the commit of the tick at 60.0 s: main has ended with
\* the error, nothing is committed and the windows hold both ticks
C15_Witness ==
    /\ error = "SinkError"
    /\ pc = "done"
    /\ committed = <<>>
    /\ Len(system_utilization) = 2
    /\ user_utilization # <<>>
    /\ next_commit = 600

\* C16: when the sampling of one process fails (the process has vanished, is
\* a zombie or denies access) collect raises nothing and returns a snapshot
\* without that process and with every other process of the tick, and the
\* loop goes on to its body.
C16_FailedProcessOmitted ==
    [][pc = "collect" =>
          /\ error' = "none"
          /\ pc' = "body"
          /\ [k \in DOMAIN snapshot'[1].processes |-> snapshot'[1].processes[k].pid]
                 = <<1, 2>>]_vars

\* C17: no tracker without match rules exists in a running scheduler: the
\* construction of a group whose list of patterns is empty raises, so every
\* tracker of user_utilization has a glob pattern or a literal executable.
C17_NoTrackerWithoutPatterns ==
    \A t \in Trackers :
        \/ FilterPatterns(t.tracker.patterns) # <<>>
        \/ FilterExecutables(t.tracker.patterns) # {}

\* C18: the processes of the anonymous owner are kept out of every named
\* group: no named tracker of the anonymous owner holds an entry, and no
\* record with the anonymous user and a group name is ever committed.
C18_AnonymousOnlyInCatchAll ==
    /\ \A t \in Trackers :
          (t.user = None /\ t.tracker.name # None) => t.tracker.measurements = <<>>
    /\ \A i \in DOMAIN committed : \A k \in DOMAIN committed[i] :
          (committed[i][k].kind = "proc" /\ committed[i][k].user = None)
              => committed[i][k].group = None

\* the processes of owner user in snap, whatever their command
OwnerProcs(snap, user) ==
    SelectSeqBy(snap.processes, {p \in Range(snap.processes) : p.username = user})

\* the entry that all processes of user make in the tick of snap
OwnerEntry(snap, user) ==
    LET m == OwnerProcs(snap, user)
    IN  [username   |-> user,
         time_start |-> snap.system.time_start,
         time_end   |-> snap.system.time_end,
         cpu_usage  |-> SumSeq([k \in DOMAIN m |-> m[k].cpu_usage]),
         mem_usage  |-> SumSeq([k \in DOMAIN m |-> m[k].mem_usage]),
         processes  |-> {[pid |-> id[1], create_time |-> id[2]] : id \in RefIdentities(m)}]

RECURSIVE OwnerWindow(_, _)
\* one entry per snapshot of snaps in which user owns a process
OwnerWindow(snaps, user) ==
    IF snaps = <<>> THEN <<>>
    ELSE (IF OwnerProcs(Head(snaps), user) # <<>>
          THEN <<OwnerEntry(Head(snaps), user)>> ELSE <<>>)
         \o OwnerWindow(Tail(snaps), user)

\* C19: every owner seen since the last reset has one entry of
\* user_utilization, with one tracker per configured group, in order, and
\* after them exactly one catch-all tracker (name None); the window of the
\* catch-all tracker has one entry per tick in which the owner had a process,
\* summing all processes of the owner in that tick, with or without command
\* line; a tick changes no window of an owner that has no process in it.
C19_CatchAllPerOwner ==
    [][/\ {user_utilization'[i].user : i \in DOMAIN user_utilization'} = RefOwners'
       /\ \A i, j \in DOMAIN user_utilization' :
             user_utilization'[i].user = user_utilization'[j].user => i = j
       /\ \A i \in DOMAIN user_utilization' :
             LET gs == user_utilization'[i].groups
                 n  == Len(config.groups)
             IN  /\ Len(gs) = n + 1
                 /\ \A g \in 1..n : gs[g].name = config.groups[g].name
                 /\ gs[n + 1].name = None
                 /\ gs[n + 1].measurements =
                        OwnerWindow(since_reset', user_utilization'[i].user)
       /\ pc = "body" =>
             \A t \in Trackers :
                 OwnerProcs(Tick, t.user) = <<>> =>
                     WindowOf(user_utilization', t.user, t.tracker.name)
                         = t.tracker.measurements]_vars

\* two groups are configured; alice, bob and the anonymous owner each have
\* their trackers; the anonymous owner's catch-all window holds the entry of
\* a process without command line, and alice's holds two entries while
\* bob's holds one
C19_Witness ==
    /\ Len(config.groups) = 2
    /\ {user_utilization[i].user : i \in DOMAIN user_utilization} = {"alice", "bob", None}
    /\ Len(WindowOf(user_utilization, "alice", None)) = 2
    /\ Len(WindowOf(user_utilization, "bob", None)) = 1
    /\ Len(WindowOf(user_utilization, None, None)) = 1
    /\ WindowOf(user_utilization, None, None)[1].cpu_usage = 1
    /\ WindowOf(user_utilization, None, None)[1].processes = {}

\* C20: when a tick hands a tracker the (non-empty) list of its owner's
\* measurements, the tracker's window gets exactly one new entry, merged from
\* the measurements its filter accepts and from no other, if the filter
\* accepts at least one; otherwise the window stays as it was.
C20_AddMeasurementsFrame ==
    [][pc = "body" =>
          \A i \in DOMAIN user_utilization' :
              \A g \in DOMAIN user_utilization'[i].groups :
                  LET user   == user_utilization'[i].user
                      after  == user_utilization'[i].groups[g]
                      before == WindowOf(user_utilization, user, after.name)
                      items  == OwnerProcs(Tick, user)
                      hits   == {k \in DOMAIN items :
                                    CommandFilters(after.patterns, items[k].command)}
                  IN  items # <<>> =>
                          /\ Len(after.measurements) <= Len(before) + 1
                          /\ hits = {} => after.measurements = before
                          /\ hits # {} =>
                                after.measurements =
                                    Append(before,
                                           [username   |-> user,
                                            time_start |-> Tick.system.time_start,
                                            time_end   |-> Tick.system.time_end,
                                            cpu_usage  |-> SumSeq([k \in DOMAIN items |->
                                                IF k \in hits THEN items[k].cpu_usage ELSE 0]),
                                            mem_usage  |-> SumSeq([k \in DOMAIN items |->
                                                IF k \in hits THEN items[k].mem_usage ELSE 0]),
                                            processes  |-> UNION {unique_id(items[k]) :
                                                                     k \in hits}])]_vars

\* alice was seen in two ticks, first with sshd only and then with py and
\* sshd: her catch-all window has two entries (the second sums both
\* processes), her py window has the one entry of the second tick
C20_Witness ==
    /\ pc = "commit"
    /\ Len(config.groups) = 2
    /\ Len(WindowOf(user_utilization, "alice", None)) = 2
    /\ WindowOf(user_utilization, "alice", None)[2].cpu_usage = 3
    /\ Len(WindowOf(user_utilization, "alice", "py")) = 1
    /\ WindowOf(user_utilization, "alice", "py")[1].cpu_usage = 2
    /\ Len(WindowOf(user_utilization, "alice", "daemon")) = 2

\* some item of the list differs from the first in owner or interval
Mismatch(items) ==
    \E i \in DOMAIN items :
        \/ items[i].username # items[1].username
        \/ items[i].time_start # items[1].time_start
        \/ items[i].time_end # items[1].time_end

\* the non-empty runs of consecutive measurements of the snapshot snap
RunsOf(snap) ==
    {SubSeq(snap.processes, a, b) : a, b \in DOMAIN snap.processes} \ {<<>>}

\* C21: from_measurements raises exactly when an item differs from the first
\* in username, time_start or time_end; otherwise its entry has the username
\* and the interval of the items and the sums of their cpu and mem values.
\* When it raises inside the loop, main ends with the error; in a live run
\* it never raises.
C21_MergeSumsOrRaises ==
    [][pc = "body" =>
          /\ \A items \in RunsOf(Tick) :
                /\ FromMeasurementsRaises(items) <=> Mismatch(items)
                /\ ~Mismatch(items) =>
                      LET m == from_measurements(items)
                      IN  /\ \A i \in DOMAIN items :
                                /\ m.username = items[i].username
                                /\ m.time_start = items[i].time_start
                                /\ m.time_end = items[i].time_end
                          /\ m.cpu_usage = SumSeq([i \in DOMAIN items |-> items[i].cpu_usage])
                          /\ m.mem_usage = SumSeq([i \in DOMAIN items |-> items[i].mem_usage])
          /\ (\E u \in {"alice", "bob", None} :
                    OwnerProcs(Tick, u) # <<>> /\ Mismatch(OwnerProcs(Tick, u)))
                <=> (error' = "ValueError" /\ pc' = "done")
          /\ ~config.load_replay => error' = "none"]_vars

\* a replayed snapshot gave alice two measurements with different start
\* times: her py tracker took the one it accepts, the merge for the catch-all
\* tracker raised and main ended
C21_Witness ==
    /\ config.load_replay
    /\ error = "ValueError"
    /\ pc = "done"
    /\ Len(WindowOf(user_utilization, "alice", "py")) = 1
    /\ WindowOf(user_utilization, "alice", None) = <<>>
    /\ \E i, j \in DOMAIN Tick.processes :
          Tick.processes[i].time_start # Tick.processes[j].time_start

\* the measurements of procs whose creation time is known
KnownCreation(procs) ==
    SelectSeqBy(procs, {p \in Range(procs) : p.create_time # <<>>})

\* the identities (pid, create_time) of the measurements of procs
IdentitiesOf(procs) ==
    {[pid |-> procs[k].pid, create_time |-> procs[k].create_time[1]] :
        k \in DOMAIN procs}

\* C22: in every aggregated tick the entry added to an owner's catch-all
\* window sums the cpu and mem of all of the owner's measurements, with or
\* without creation time, while its identity set holds (pid, create_time) of
\* exactly the measurements whose creation time is known; the same holds of
\* the identity set of the system measurement added to the system window.
C22_UnknownCreationCountsNoIdentity ==
    [][(pc = "body" /\ pc' = "commit") =>
          /\ LET sys == system_utilization'[Len(system_utilization')]
             IN  sys.user_processes = IdentitiesOf(KnownCreation(Tick.processes))
          /\ \A u \in {Tick.processes[k].username : k \in DOMAIN Tick.processes} :
                LET w     == WindowOf(user_utilization', u, None)
                    e     == w[Len(w)]
                    procs == OwnerProcs(Tick, u)
                IN  /\ e.cpu_usage = SumSeq([k \in DOMAIN procs |-> procs[k].cpu_usage])
                    /\ e.mem_usage = SumSeq([k \in DOMAIN procs |-> procs[k].mem_usage])
                    /\ e.processes = IdentitiesOf(KnownCreation(procs))
                    /\ \A k \in DOMAIN procs :
                          procs[k].create_time = <<>> =>
                              \A id \in e.processes \cup Tick.system.user_processes : id.pid # procs[k].pid]_vars

\* the anonymous owner had a process with and a process without creation
\* time in one tick: its catch-all entry sums both and counts one identity,
\* as does the system window
C22_Witness ==
    /\ pc = "commit"
    /\ Len(Tick.processes) = 2
    /\ \E k \in DOMAIN Tick.processes : Tick.processes[k].create_time = <<>>
    /\ LET w == WindowOf(user_utilization, None, None)
       IN  /\ w # <<>>
           /\ w[Len(w)].cpu_usage = 3
           /\ Cardinality(w[Len(w)].processes) = 1
    /\ Cardinality(system_utilization[Len(system_utilization)].user_processes) = 1

\* the pattern has none of the characters that make a rule a glob
RefLiteral(pat) == \A i \in DOMAIN pat : pat[i] \notin {"*", "[", "]"}

\* the last component of a path: what lies between the last "/" that is
\* followed by another character and the trailing "/" characters
RefBasename(arg) ==
    LET last  == SetMaxOr0({i \in DOMAIN arg : arg[i] # "/"})
        slash == SetMaxOr0({i \in 1..last : arg[i] = "/"})
    IN  SubSeq(arg, slash + 1, last)

\* the arguments of a command, one space between two of them
RefJoined(command) ==
    LET starts == [k \in DOMAIN command |->
                      SumSeq([j \in 1..(k - 1) |-> Len(command[j]) + 1])]
        total  == SumSeq([j \in DOMAIN command |-> Len(command[j])]) + Len(command) - 1
    IN  [i \in 1..total |->
            LET k == CHOOSE k \in DOMAIN command :
                        starts[k] < i /\ i <= starts[k] + Len(command[k]) + 1
            IN  IF i = starts[k] + Len(command[k]) + 1 THEN " "
                ELSE command[k][i - starts[k]]]

RECURSIVE RefGlobEnds(_, _, _)
\* the lengths of the prefixes of str that the first n characters of the glob
\* pat match ("*" any run of characters, "?" any one character)
RefGlobEnds(str, pat, n) ==
    IF n = 0 THEN {0}
    ELSE LET before == RefGlobEnds(str, pat, n - 1)
         IN  IF pat[n] = "*" THEN {j \in 0..Len(str) : \E i \in before : i <= j}
             ELSE {i + 1 : i \in {i \in before :
                                     /\ i < Len(str)
                                     /\ (pat[n] = "?" \/ str[i + 1] = pat[n])}}

\* whether a filter of the rules patterns accepts the command
RefMatch(patterns, command) ==
    IF command = <<>> THEN <<"*">> \in Range(patterns)
    ELSE \/ \E p \in Range(patterns) : RefLiteral(p) /\ p = RefBasename(command[1])
         \/ \E p \in Range(patterns) :
               /\ ~RefLiteral(p)
               /\ Len(RefJoined(command)) \in RefGlobEnds(RefJoined(command), p, Len(p))

\* C23: a filter accepts a command exactly when, for no or an empty command,
\* "*" is among its rules and, for any other command, the basename of the
\* first argument is one of its literal rules or one of its glob rules
\* matches the whole command joined with single spaces; the group window
\* gains an entry in a tick exactly when the filter accepts the command of a
\* process of the owner.  ["sshd"] accepts ["/usr/sbin/sshd", "-D"], ["*.py"]
\* does not accept ["/usr/bin/python3"].
C23_FilterMatchesBasenameOrGlob ==
    [][(pc = "body" /\ pc' = "commit") =>
          /\ \A k \in DOMAIN Tick.processes :
                LET p       == Tick.processes[k]
                    rules   == config.groups[1].patterns
                    before  == WindowOf(user_utilization, p.username, "g")
                    after   == WindowOf(user_utilization', p.username, "g")
                IN  /\ CommandFilters(rules, p.command) <=> RefMatch(rules, p.command)
                    /\ Len(after) = Len(before) + (IF RefMatch(rules, p.command) THEN 1 ELSE 0)
          /\ CommandFilters(<<<<"s", "s", "h", "d">>>>, <<<<"/", "u", "s", "r", "/", "s", "b", "i", "n", "/", "s", "s", "h", "d">>, <<"-", "D">>>>)
          /\ ~CommandFilters(<<<<"*", ".", "p", "y">>>>, <<<<"/", "u", "s", "r", "/", "b", "i", "n", "/", "p", "y", "t", "h", "o", "n", "3">>>>)]_vars

\* the group of the literal rule "sshd" has taken the daemon started as
\* /usr/sbin/sshd -D, in a run in which a process given "sshd" as its second
\* argument was left out of the group
C23_Witness ==
    /\ pc = "commit"
    /\ config.groups[1].patterns = <<<<"s", "s", "h", "d">>>>
    /\ Tick.processes[1].command = <<<<"/", "u", "s", "r", "/", "s", "b", "i", "n", "/", "s", "s", "h", "d">>, <<"-", "D">>>>
    /\ Len(WindowOf(user_utilization, "alice", "g")) = 1
    /\ Len(WindowOf(user_utilization, "alice", None)) = 2
    /\ since_reset[1].processes[1].command = <<<<"s", "h">>, <<"s", "s", "h", "d">>>>

\* C24: the system measurement and every process measurement of one
\* collect() carry one interval; it starts at the end of the interval of the
\* previous collect(), or at the construction of the monitor for the first
\* tick, and does not end before it starts; the next interval starts where
\* it ends.
C24_SharedContiguousIntervals ==
    [][(pc = "collect" /\ pc' = "body") =>
          LET s == snapshot'[1]
          IN  /\ \A k \in DOMAIN s.processes :
                    /\ s.processes[k].time_start = s.system.time_start
                    /\ s.processes[k].time_end = s.system.time_end
              /\ IF ticks = 0 THEN s.system.time_start \in StartTimes
                 ELSE s.system.time_start = snapshot[1].system.time_end
              /\ s.system.time_start <= s.system.time_end
              /\ last_time' = s.system.time_end]_vars

\* the third tick of a run whose wake-ups were late and whose collections
\* took time: its three measurements and the system measurement share an
\* interval that starts where the interval of the second tick ended
C24_Witness ==
    /\ pc = "body"
    /\ ticks = 3
    /\ Len(Tick.processes) = 3
    /\ Tick.system.time_end - Tick.system.time_start \notin {0, RefreshInterval}
    /\ \A k \in DOMAIN Tick.processes :
          Tick.processes[k].time_start = Tick.system.time_start
    /\ since_reset # <<>>
    /\ since_reset[Len(since_reset)].system.time_end = Tick.system.time_start

\* C25: a collection logs its warning exactly when it has taken 1.0 s or
\* more; slow or not, its snapshot is yielded with the wake-up time as
\* timestamp and with the interval from the previous sample time to this
\* one, whatever the time the collection took, and the next step of the loop
\* adds it to the system window.
C25_SlowCollectionWarnsAndYields ==
    [][/\ pc = "collect" =>
             /\ pc' = "body"
             /\ "collect" \in logged' <=> now' - time_after_sleep >= 10
             /\ snapshot'[1].timestamp = time_after_sleep
             /\ snapshot'[1].system.time_start = last_time
             /\ snapshot'[1].system.time_end = time_after_sleep
             /\ \A k \in DOMAIN snapshot'[1].processes :
                   /\ snapshot'[1].processes[k].time_start = last_time
                   /\ snapshot'[1].processes[k].time_end = time_after_sleep
       /\ (pc = "body" /\ "collect" \in logged) =>
             /\ pc' = "commit"
             /\ system_utilization' = Append(system_utilization, Tick.system)
             /\ \A u \in {Tick.processes[k].username : k \in DOMAIN Tick.processes} :
                   LET w == WindowOf(user_utilization', u, None)
                   IN  w # <<>> /\ w[Len(w)] = OwnerEntry(Tick, u)]_vars

\* a collection took 1.0 s after a wake-up that was 0.4 s late: the snapshot
\* has been aggregated, and its interval ends at the wake-up, 1.0 s before
\* the clock
C25_Witness ==
    /\ pc = "commit"
    /\ now - Tick.timestamp = 10
    /\ Tick.timestamp % RefreshInterval = 4
    /\ Tick.system.time_end = Tick.timestamp
    /\ system_utilization # <<>>
    /\ system_utilization[Len(system_utilization)] = Tick.system
    /\ Len(WindowOf(user_utilization, "bob", None)) = 1

\* C26: a commit whose write takes longer than 0.5 s logs a warning, and
\* the loop goes on to the next sleep.
C26_SlowCommitWarns ==
    [][(/\ pc = "commit"
        /\ Len(committed') > Len(committed)
        /\ now' - now > 5)
          => ("commit" \in logged' /\ pc' = "sleep")]_vars

\* a time in tenths of a second, in whole seconds, the fraction dropped
WholeSeconds(t) == (t - (t % 10)) \div 10

\* C29: every record of a commit has as time_start the smallest time_start
\* and as time_end the largest time_end of the entries of its window, in
\* whole seconds with the fraction dropped, and time_start <= time_end.
C29_RecordSpansWindow ==
    [][(pc = "commit" /\ Len(committed') > Len(committed)) =>
          LET recs == committed'[Len(committed')]
          IN  \A k \in DOMAIN recs :
                  LET w == IF recs[k].kind = "system" THEN system_utilization
                           ELSE WindowOf(user_utilization, recs[k].user, recs[k].group)
                  IN  /\ w # <<>>
                      /\ recs[k].time_start =
                             WholeSeconds(SetMin({w[i].time_start : i \in DOMAIN w}))
                      /\ recs[k].time_end =
                             WholeSeconds(SetMax({w[i].time_end : i \in DOMAIN w}))
                      /\ recs[k].time_start <= recs[k].time_end]_vars

\* a commit has written the records of a window of two entries that began
\* at 54.0 s and ended at 64.9 s: they span the seconds 54 to 64
C29_Witness ==
    /\ committed # <<>>
    /\ \E k \in DOMAIN committed[1] :
          /\ committed[1][k].kind = "proc"
          /\ committed[1][k].time_start = 54
          /\ committed[1][k].time_end = 64
    /\ committed[1][Len(committed[1])].kind = "system"
    /\ committed[1][Len(committed[1])].time_end = 64

\* the smallest multiple of the refresh interval after t
NextMultiple(t) == CHOOSE m \in (t + 1)..(t + RefreshInterval) : m % RefreshInterval = 0

\* C30: every sleep of a live run aims at the first multiple of T after the
\* clock at which it starts, whatever the lateness of the wake-ups before
\* it: it sleeps T - (now mod T), wakes at that multiple or later, logs its
\* warning exactly when it wakes 0.5 s or more after it, and goes on to the
\* collection in either case.
C30_SleepAimsAtNextMultiple ==
    [][pc = "sleep" /\ pc' # "done" =>
          /\ now + expected_sleep_time(now) = NextMultiple(now)
          /\ time_after_sleep' >= NextMultiple(now)
          /\ time_after_sleep' - NextMultiple(now) < RefreshInterval
          /\ "sleep" \in logged' <=> time_after_sleep' - NextMultiple(now) >= 5
          /\ now' = time_after_sleep'
          /\ pc' = "collect"]_vars

\* the third wake-up of a run is on time, at 70.0 s, after a first wake-up
\* 0.5 s late and a second 4.9 s late
C30_Witness ==
    /\ pc = "collect"
    /\ ticks = 2
    /\ time_after_sleep = 700
    /\ logged = {}
    /\ Tick.timestamp = 649
    /\ Tick.system.time_start = 555

\* C27: a step that ends the loop without error, by KeyboardInterrupt or at
\* the end of a replay, commits nothing and leaves the windows as they are;
\* an interrupt of the sleep and the end of a replay end main without error.
C27_EndOfLoopFlushesNothing ==
    [][(pc # "done" /\ pc' = "done") =>
          /\ error' = "none" =>
                /\ committed' = committed
                /\ system_utilization' = system_utilization
                /\ user_utilization' = user_utilization
          /\ (\/ pc = "sleep"
              \/ pc = "replay" /\ replay_pos = Len(replay_in[1])) => error' = "none"]_vars

\* a live run was interrupted after a commit and one more tick: the record
\* list of the commit is all that was written, and the tick is still in the
\* windows
C27_Witness ==
    /\ pc = "done"
    /\ error = "none"
    /\ replay_in = <<>>
    /\ Len(committed) = 1
    /\ Len(system_utilization) = 1
    /\ user_utilization # <<>>
    /\ ticks = 3

\* the last entry of the system window is of a snapshot of which an owner has
\* no entry in the catch-all window
PartialAggregation ==
    /\ system_utilization # <<>>
    /\ snapshot # <<>>
    /\ system_utilization[Len(system_utilization)] = Tick.system
    /\ \E k \in DOMAIN Tick.processes :
          \A e \in Range(WindowOf(user_utilization, Tick.processes[k].username, None)) :
              e.time_end # Tick.system.time_end

\* the record of the system window has been committed and the window still
\* holds its entries
CommittedNotReset ==
    /\ committed # <<>>
    /\ system_utilization # <<>>
    /\ LET recs == committed[Len(committed)]
       IN  recs # <<>> /\ recs[Len(recs)] = SystemUtilization(system_utilization)

\* C28: a live run is ended by cancellation only while it sleeps, and when
\* it has ended without error no snapshot is in the system window without
\* being in the windows of its owners, and no committed record is of a
\* window that was not reset.
C28_CancelOnlyWhileSleeping ==
    [][(pc # "done" /\ pc' = "done" /\ error' = "none" /\ replay_in = <<>>) =>
          /\ pc = "sleep"
          /\ ~PartialAggregation'
          /\ ~CommittedNotReset']_vars

\* the tick of the snapshot has been worked on to its end: it is the last of
\* the snapshots aggregated since the last reset, or a commit has emptied the
\* windows after it
TickCompleted ==
    IF since_reset # <<>> THEN since_reset[Len(since_reset)] = Tick
    ELSE committed # <<>> /\ system_utilization = <<>> /\ user_utilization = <<>>

\* C31: ticks never overlap and are never caught up.  A sleep starts only
\* when the tick before it has been aggregated and, if due, committed; it
\* wakes after the clock at which it started, at or after the first multiple
\* of T after that clock, so its timestamp is greater than the timestamp of
\* the tick before it whatever the time that tick took; and every wake-up
\* is followed by one snapshot, which carries the time of the wake-up.
C31_TicksSequentialNoCatchUp ==
    [][/\ (pc = "sleep" /\ pc' = "collect") =>
             /\ ticks > 0 => (TickCompleted /\ time_after_sleep' > Tick.timestamp)
             /\ time_after_sleep' > now
             /\ time_after_sleep' >= NextMultiple(now)
             /\ ticks' = ticks /\ snapshot' = snapshot
       /\ ticks' # ticks =>
             /\ pc = "collect" /\ pc' = "body"
             /\ ticks' = ticks + 1
             /\ snapshot'[1].timestamp = time_after_sleep
       /\ (pc \in {"collect", "body", "commit"} /\ pc' # "done") =>
             pc' = CASE pc = "collect" -> "body"
                     [] pc = "body" -> "commit"
                     [] pc = "commit" -> "sleep"]_vars

\* the third tick wakes at 80.0 s: the second, at 60.0 s, took 7 s to
\* collect and 12 s to commit, and the instants 65.0 s, 70.0 s and 75.0 s
\* have passed without a tick
C31_Witness ==
    /\ pc = "collect"
    /\ ticks = 2
    /\ Tick.timestamp = 600
    /\ TickCompleted
    /\ Len(committed) = 1
    /\ time_after_sleep = 800

\* the windows hold the snapshot snap as their last entries: the system
\* window its system measurement, the catch-all window of each of its owners
\* an entry of its interval
HoldsSnapshot(system, users, snap) ==
    /\ system # <<>>
    /\ system[Len(system)] = snap.system
    /\ \A k \in DOMAIN snap.processes :
          LET w == WindowOf(users, snap.processes[k].username, None)
          IN  /\ w # <<>>
              /\ w[Len(w)].time_start = snap.system.time_start
              /\ w[Len(w)].time_end = snap.system.time_end

\* C32: the commit check of a tick comes after its drift check and its
\* aggregation.  When the commit check is reached the boundary is less than
\* 10 s behind the tick (a boundary missed by more has been realigned) and
\* the windows hold the tick's snapshot; a commit is decided on that boundary
\* and writes the records of those windows, so the record of the system
\* window ends with the triggering snapshot, and it leaves the windows empty.
C32_CommitSeesAggregatedTick ==
    [][/\ pc' = "commit" =>
             /\ pc = "body"
             /\ next_commit' = DriftCheck(next_commit, Tick)
             /\ Tick'.timestamp - next_commit' < DriftLimit
             /\ HoldsSnapshot(system_utilization', user_utilization', Tick')
       /\ (pc = "commit" /\ error' = "none") =>
             (Len(committed') > Len(committed) <=> CommitDue(next_commit, Tick))
       /\ (pc = "commit" /\ Len(committed') > Len(committed)) =>
             LET recs == committed'[Len(committed')]
             IN  /\ recs = commit_utilization_records(system_utilization, user_utilization)
                 /\ recs[Len(recs)].time_end =
                        timestamp_to_round_utc(Tick.system.time_end)
                 /\ system_utilization' = <<>>
                 /\ user_utilization' = <<>>]_vars

\* the second tick, at 60.0 s, has triggered the commit of the boundary
\* 60.0 s: the record of the system window ends with it, at 60 s, and the
\* windows are empty
C32_Witness ==
    /\ pc = "sleep"
    /\ ticks = 2
    /\ Tick.timestamp = 600
    /\ Len(committed) = 1
    /\ committed[1][Len(committed[1])].time_start = 54
    /\ committed[1][Len(committed[1])].time_end = 60
    /\ system_utilization = <<>>
    /\ user_utilization = <<>>

\* the measurements of all snapshots of snaps
AllMeasurements(snaps) ==
    UNION {Range(snaps[i].processes) : i \in DOMAIN snaps}

\* C33: the system record of a commit counts, over all snapshots aggregated
\* since the last reset, the distinct usernames other than the anonymous one
\* (users) and the distinct (pid, create_time) of the measurements whose
\* creation time is known, whoever owns them (user_processes).
C33_SystemRecordCounts ==
    [][(pc = "commit" /\ Len(committed') > Len(committed)) =>
          LET recs  == committed'[Len(committed')]
              sys   == recs[Len(recs)]
              procs == AllMeasurements(since_reset)
          IN  /\ sys.kind = "system"
              /\ sys.users = Cardinality({p.username : p \in procs} \ {None})
              /\ sys.user_processes =
                     Cardinality({<<p.pid, p.create_time[1]>> :
                                     p \in {q \in procs : q.create_time # <<>>}})]_vars

\* the first commit is of two ticks that saw alice, bob and the anonymous
\* owner; the anonymous owner had one process with a creation time in the
\* window: the system record counts two users and three processes
C33_Witness ==
    /\ Len(committed) = 1
    /\ LET recs == committed[1]
           sys  == recs[Len(recs)]
       IN  /\ sys.time_start = 54
           /\ sys.time_end = 60
           /\ sys.users = 2
           /\ sys.user_processes = 3
           /\ \E k \in DOMAIN recs :
                 /\ recs[k].kind = "proc"
                 /\ recs[k].user = None
                 /\ recs[k].group = None
                 /\ recs[k].processes = 1

\* C34: the boundary computed after a commit is greater than the boundary
\* that triggered the commit, also when the tick is up to 0.1 s before the
\* boundary and the clock read after the commit is still before it.
C34_BoundaryStrictlyIncreases ==
    [][(pc = "commit" /\ Len(committed') > Len(committed)) =>
          next_commit' > next_commit]_vars

\* C35: when the commit check is reached the system window holds at least
\* the measurement of the tick, so its time_start and time_end are numbers
\* and not the NaN of an empty window, and the system record of a commit
\* carries the whole seconds of the start of the first and of the end of the
\* last snapshot of the window.
C35_SystemWindowNonEmptyAtCommit ==
    [][pc = "commit" =>
          /\ system_utilization # <<>>
          /\ system_utilization[Len(system_utilization)] = Tick.system
          /\ ~RoundRaises(time_start(system_utilization))
          /\ ~RoundRaises(time_end(system_utilization))
          /\ Len(committed') > Len(committed) =>
                LET recs == committed'[Len(committed')]
                    sys  == recs[Len(recs)]
                IN  /\ sys.kind = "system"
                    /\ sys.time_start = WholeSeconds(since_reset[1].system.time_start)
                    /\ sys.time_end = WholeSeconds(Tick.system.time_end)]_vars

\* the first tick of a run woke 10 s late, at 65.0 s, past the boundary
\* 60.0 s, and has committed a system window of its one entry, from 54 s to
\* 65 s
C35_Witness ==
    /\ pc = "sleep"
    /\ ticks = 1
    /\ Len(committed) = 1
    /\ LET recs == committed[1]
       IN  /\ recs[Len(recs)].kind = "system"
           /\ recs[Len(recs)].time_start = 54
           /\ recs[Len(recs)].time_end = 65
    /\ system_utilization = <<>>

\* the system record of the k-th commit
SystemRecord(k) == committed[k][Len(committed[k])]

\* C36: the system windows of a live run tile time.  Every snapshot begins
\* where the one before it ended (at _last_time), the entries of the system
\* window follow each other without gap or overlap, a commit writes a window
\* that ends at _last_time and leaves _last_time as it is, and the first
\* entry of the window after it begins there, whether or not a tick in
\* between has realigned the boundary; the record of a commit begins at the
\* second at which the record of the commit before it ended.
C36_SystemRecordsTileTime ==
    [][/\ (pc = "collect" /\ pc' = "body") =>
             /\ Tick'.system.time_start = last_time
             /\ Tick'.system.time_end = last_time'
       /\ pc \in {"sleep", "body", "commit"} => last_time' = last_time
       /\ pc' = "commit" =>
             /\ \A i \in 1..(Len(system_utilization') - 1) :
                   system_utilization'[i].time_end = system_utilization'[i + 1].time_start
             /\ time_end(system_utilization') = last_time
             /\ system_utilization = <<>> =>
                   time_start(system_utilization') = Tick.system.time_start
       /\ (pc = "commit" /\ Len(committed') > Len(committed)) =>
             /\ time_end(system_utilization) = last_time
             /\ system_utilization' = <<>>
             /\ committed # <<>> =>
                   LET recs == committed'[Len(committed')]
                   IN  recs[Len(recs)].time_start =
                           SystemRecord(Len(committed)).time_end]_vars

\* the first tick, 10 s late at 65.0 s, has committed the window from 54 s
\* to 65 s; the second, after a suspension, at 179.0 s, has moved the
\* boundary from 120.0 s to 180.0 s; the third has committed the window from
\* 65 s to 180 s
C36_Witness ==
    /\ ticks = 3
    /\ Len(committed) = 2
    /\ SystemRecord(1).time_start = 54
    /\ SystemRecord(1).time_end = 65
    /\ SystemRecord(2).time_start = 65
    /\ SystemRecord(2).time_end = 180
    /\ system_utilization = <<>>

\* the owners that have trackers in users
OwnersOf(users) == {users[i].user : i \in DOMAIN users}

\* C37: after every step the owners that have trackers are the owners of the
\* processes aggregated since the last reset, and the catch-all window of
\* each of them holds an entry, so its time_start and time_end are numbers;
\* a commit writes a catch-all record for exactly these owners, with the
\* whole seconds of the bounds of that window, and clears the map.
C37_OwnersHaveCatchAllEntries ==
    [][/\ OwnersOf(user_utilization') = RefOwners'
       /\ \A u \in OwnersOf(user_utilization') :
             LET w == WindowOf(user_utilization', u, None)
             IN  /\ w # <<>>
                 /\ ~RoundRaises(time_start(w))
                 /\ ~RoundRaises(time_end(w))
       /\ (pc = "commit" /\ Len(committed') > Len(committed)) =>
             LET recs     == committed'[Len(committed')]
                 catchAll == {k \in DOMAIN recs :
                                 recs[k].kind = "proc" /\ recs[k].group = None}
             IN  /\ {recs[k].user : k \in catchAll} = RefOwners
                 /\ \A k \in catchAll :
                       LET w == WindowOf(user_utilization, recs[k].user, None)
                       IN  /\ recs[k].time_start = WholeSeconds(time_start(w))
                           /\ recs[k].time_end = WholeSeconds(time_end(w))
                 /\ user_utilization' = <<>>]_vars

\* with a group "py" configured, the first tick saw the anonymous owner alone
\* and the second saw alice; the commit of the second tick has written the
\* catch-all records of these two owners and none of bob
C37_Witness ==
    /\ config.groups # <<>>
    /\ Len(committed) = 1
    /\ ticks = 2
    /\ user_utilization = <<>>
    /\ LET recs     == committed[1]
           catchAll == {k \in DOMAIN recs :
                           recs[k].kind = "proc" /\ recs[k].group = None}
       IN  /\ {recs[k].user : k \in catchAll} = {None, "alice"}
           /\ \E k \in catchAll :
                 recs[k].user = "alice" /\ recs[k].time_start = 55 /\ recs[k].time_end = 60

\* every snapshot of the replay is more than 0.1 s before the boundary
ReplayBeforeBoundary ==
    /\ replay_in # <<>>
    /\ \A i \in DOMAIN replay_in[1] :
          replay_in[1][i].timestamp + CommitTolerance < next_commit

LiveBoundaries == {k * RecordInterval : k \in 1..2}

\* C39: in a live run whose ticks keep arriving less than 10 s late and
\* whose commits succeed, every scheduled boundary is followed by a commit,
\* made by the first tick whose timestamp is at or after the boundary less
\* 0.1 s: a tick commits exactly when it has reached that point, no tick
\* before it in the window had, commits happen again and again, and the
\* system window never holds more than C / T + 1 entries.
C39_EveryBoundaryCommitted ==
    /\ \A b \in LiveBoundaries :
          (pc = "sleep" /\ committed = <<>> /\ next_commit = b)
              ~> (committed # <<>> /\ Tick.timestamp + CommitTolerance >= b)
    /\ []<>(committed # <<>>)
    /\ [](Len(system_utilization) <= RecordInterval \div RefreshInterval + 1)
    /\ [][pc = "commit" =>
             /\ Len(committed') > Len(committed)
                    <=> Tick.timestamp + CommitTolerance >= next_commit
             /\ \A i \in 1..(Len(since_reset) - 1) :
                   since_reset[i].timestamp + CommitTolerance < next_commit]_vars

\* late in a run, a tick that woke 9.9 s after the boundary has committed
\* the window of the eleven ticks before it and its own
C39_Witness ==
    /\ pc = "sleep"
    /\ committed # <<>>
    /\ Tick.timestamp = 1299
    /\ Tick.system.time_start = 1150
    /\ committed[1][Len(committed[1])].time_start = 60
    /\ committed[1][Len(committed[1])].time_end = 129

====
